---- MODULE Spec2Model ----
(***************************************************************************)
(* Manual ingestion and retrieval engine of PWS_V2 (NestJS backend):       *)
(* ManualsService, VectorStoreService, the manual controllers and the      *)
(* retrieval call of SimulationsService.                                    *)
(*                                                                         *)
(* Strings are run-length encoded: a text is a sequence of runs            *)
(* [c |-> character, n |-> count] with n >= 1 and adjacent runs of         *)
(* different characters, so that an 800 character window is one run and   *)
(* two equal strings have one representation.                              *)
(***************************************************************************)
EXTENDS Integers, Sequences, FiniteSets, TLC

\* ------------------------------------------------------------------------
\* Bounds of the model
\* ------------------------------------------------------------------------
\* iterations of the chunkText loop that the chunker specification follows
MaxIter == 4

\* ------------------------------------------------------------------------
\* Strings (String.prototype.length / slice / trim, concatenation)
\* ------------------------------------------------------------------------
Min(a, b) == IF a < b THEN a ELSE b

Max(a, b) == IF a > b THEN a ELSE b

\* characters that String.prototype.trim and \s treat as white space
IsWs(c) == c \in {" ", "\n"}

Run(c, n) == [c |-> c, n |-> n]

\* the string made of n copies of character c
Str(c, n) == IF n <= 0 THEN <<>> ELSE <<Run(c, n)>>

RECURSIVE TLen(_)
TLen(t) == IF t = <<>> THEN 0 ELSE Head(t).n + TLen(Tail(t))

\* a ++ b
TCat(a, b) ==
    IF a = <<>> THEN b
    ELSE IF b = <<>> THEN a
    ELSE IF a[Len(a)].c = Head(b).c
         THEN SubSeq(a, 1, Len(a) - 1)
              \o <<Run(Head(b).c, a[Len(a)].n + Head(b).n)>>
              \o Tail(b)
         ELSE a \o b

RECURSIVE TDrop(_, _)
TDrop(t, k) ==
    IF k <= 0 \/ t = <<>> THEN t
    ELSE IF Head(t).n <= k THEN TDrop(Tail(t), k - Head(t).n)
    ELSE <<Run(Head(t).c, Head(t).n - k)>> \o Tail(t)

RECURSIVE TTake(_, _)
TTake(t, k) ==
    IF k <= 0 \/ t = <<>> THEN <<>>
    ELSE IF Head(t).n <= k THEN <<Head(t)>> \o TTake(Tail(t), k - Head(t).n)
    ELSE <<Run(Head(t).c, k)>>

\* a relative index of slice(): negative counts from the end, clamped to 0..len
JsIndex(i, len) == IF i < 0 THEN Max(len + i, 0) ELSE Min(i, len)

\* text.slice(start, end)
TSlice(t, start, end) ==
    LET from == JsIndex(start, TLen(t))
        to == JsIndex(end, TLen(t))
    IN IF from >= to THEN <<>> ELSE TTake(TDrop(t, from), to - from)

RECURSIVE TrimLeft(_)
TrimLeft(t) ==
    IF t = <<>> THEN <<>>
    ELSE IF IsWs(Head(t).c) THEN TrimLeft(Tail(t))
    ELSE t

RECURSIVE TrimRight(_)
TrimRight(t) ==
    IF t = <<>> THEN <<>>
    ELSE IF IsWs(t[Len(t)].c) THEN TrimRight(SubSeq(t, 1, Len(t) - 1))
    ELSE t

\* text.trim()
TTrim(t) == TrimRight(TrimLeft(t))

\* ------------------------------------------------------------------------
\* chunkText (manuals.service.ts)
\* ------------------------------------------------------------------------
DefaultChunkSize == 800

DefaultOverlap == 100

\* a loop body that starts the next window where this one ends
ChunkIterNoOverlap(text, chunkSize, overlap, start, chunks) ==
    LET end == start + chunkSize
        chunk == TTrim(TSlice(text, start, end))
    IN [start |-> end,
        chunks |-> IF chunk # <<>> THEN Append(chunks, chunk) ELSE chunks]

\* one iteration of the while loop: the window, its trimmed text, the next start
ChunkIter(text, chunkSize, overlap, start, chunks) ==
    LET end == start + chunkSize
        chunk == TTrim(TSlice(text, start, end))
    IN [start |-> end - overlap,
        chunks |-> IF chunk # <<>> THEN Append(chunks, chunk) ELSE chunks]

RECURSIVE chunkLoop(_, _, _, _, _)
chunkLoop(text, chunkSize, overlap, start, chunks) ==
    IF start < TLen(text)
    THEN LET it == ChunkIter(text, chunkSize, overlap, start, chunks)
         IN chunkLoop(text, chunkSize, overlap, it.start, it.chunks)
    ELSE chunks

\* chunkText(text, chunkSize = 800, overlap = 100); the model calls it where the
\* loop terminates (overlap < chunkSize), as every call of the service does
chunkText(text, chunkSize, overlap) == chunkLoop(text, chunkSize, overlap, 0, <<>>)

\* ------------------------------------------------------------------------
\* Optional values: <<>> is undefined / null / no file, <<x>> is the value x
\* ------------------------------------------------------------------------
None == <<>>

Some(x) == <<x>>

\* the string with the characters of the sequence cs
RECURSIVE FromChars(_)
FromChars(cs) == IF cs = <<>> THEN <<>> ELSE TCat(Str(Head(cs), 1), FromChars(Tail(cs)))

RECURSIVE CountChar(_, _)
CountChar(t, c) ==
    IF t = <<>> THEN 0
    ELSE (IF Head(t).c = c THEN Head(t).n ELSE 0) + CountChar(Tail(t), c)

\* ------------------------------------------------------------------------
\* EmbeddingsService.embed: empty vector for blank text; otherwise the external
\* feature extractor, a fixed-length vector that is a function of the text
\* (here: the counts of the letters a and b, and a constant component)
\* ------------------------------------------------------------------------
embed(text) ==
    IF TTrim(text) = <<>> THEN <<>>
    ELSE <<CountChar(text, "a"), CountChar(text, "b"), 1>>

\* ------------------------------------------------------------------------
\* VectorStoreService: cosineSimilarity and queryByEmbedding
\* ------------------------------------------------------------------------
RECURSIVE Dot(_, _)
Dot(a, b) == IF a = <<>> THEN 0 ELSE Head(a) * Head(b) + Dot(Tail(a), Tail(b))

\* cosineSimilarity(a, b) as the exact fraction sign(dot) * dot^2 / (normA * normB),
\* which orders as dot / (sqrt(normA) * sqrt(normB)) does; 0 is 0 / 1
cosineSimilarity(a, b) ==
    IF Len(a) = 0 \/ Len(b) = 0 \/ Len(a) # Len(b) THEN [num |-> 0, den |-> 1]
    ELSE LET dot == Dot(a, b)
             normA == Dot(a, a)
             normB == Dot(b, b)
         IN IF normA = 0 \/ normB = 0 THEN [num |-> 0, den |-> 1]
            ELSE [num |-> (IF dot < 0 THEN 0 - dot * dot ELSE dot * dot),
                  den |-> normA * normB]

\* x.score > y.score
ScoreGreater(x, y) == x.num * y.den > y.num * x.den

\* a sort that puts the smaller score first
RECURSIVE InsertScoredAscending(_, _)
InsertScoredAscending(sorted, e) ==
    IF sorted = <<>> THEN <<e>>
    ELSE IF ScoreGreater(Head(sorted).score, e.score) THEN <<e>> \o sorted
    ELSE <<Head(sorted)>> \o InsertScoredAscending(Tail(sorted), e)

\* Array.prototype.sort((a, b) => b.score - a.score): stable, descending
RECURSIVE InsertScored(_, _)
InsertScored(sorted, e) ==
    IF sorted = <<>> THEN <<e>>
    ELSE IF ScoreGreater(e.score, Head(sorted).score) THEN <<e>> \o sorted
    ELSE <<Head(sorted)>> \o InsertScored(Tail(sorted), e)

RECURSIVE SortScored(_, _)
SortScored(todo, sorted) ==
    IF todo = <<>> THEN sorted
    ELSE SortScored(Tail(todo), InsertScored(sorted, Head(todo)))

DefaultTopK == 3

\* queryByEmbedding(conversationId, queryEmbedding, topK) over the stored documents
queryByEmbedding(store, conversationId, queryEmbedding, topK) ==
    LET documents == store[conversationId]
    IN IF Len(queryEmbedding) = 0 \/ Len(documents) = 0 THEN <<>>
       ELSE LET scored == [i \in 1..Len(documents) |->
                              [doc |-> documents[i],
                               score |-> cosineSimilarity(queryEmbedding,
                                                          documents[i].embedding)]]
                ranked == SortScored(scored, <<>>)
            IN [i \in 1..Min(topK, Len(ranked)) |-> ranked[i].doc]

\* replaceDocuments: the documents made of chunks[idx] and embeddings[idx]
\* (their ids are random and read by nobody)
MakeDocuments(chunks, embeddings) ==
    [idx \in 1..Len(chunks) |-> [content |-> chunks[idx], embedding |-> embeddings[idx]]]

\* ------------------------------------------------------------------------
\* ManualsService: pure helpers
\* ------------------------------------------------------------------------
\* '사용자 프롬프트' ("user prompt"): U stands for 사용자, P for 프롬프트
UserPromptLabel == FromChars(<<"U", " ", "P">>)

InstructionWord == FromChars(<<"I", "n", "s", "t", "r", "u", "c", "t", "i", "o", "n">>)

FileWord == FromChars(<<"F", "i", "l", "e">>)

\* a block that keeps the white space around the text
SourceBlockUntrimmed(source) ==
    TCat(TCat(TCat(TCat(Str("=", 3), Str(" ", 1)), source.label),
              TCat(TCat(Str(" ", 1), Str("=", 3)), Str("\n", 1))),
         source.text)

\* `=== ${header} ===\n${source.text.trim()}`
SourceBlock(source) ==
    LET header == IF source.label # <<>> THEN source.label
                  ELSE IF source.type = "instruction" THEN InstructionWord
                  ELSE FileWord
    IN TCat(TCat(TCat(TCat(Str("=", 3), Str(" ", 1)), header),
                 TCat(TCat(Str(" ", 1), Str("=", 3)), Str("\n", 1))),
            TTrim(source.text))

\* sources.map(...).join('\n\n')
RECURSIVE flattenSources(_)
flattenSources(sources) ==
    IF sources = <<>> THEN <<>>
    ELSE IF Len(sources) = 1 THEN SourceBlock(sources[1])
    ELSE TCat(TCat(SourceBlock(sources[1]), Str("\n", 2)), flattenSources(Tail(sources)))

\* sources.filter(pred).length for the file sources
RECURSIVE CountFiles(_)
CountFiles(sources) ==
    IF sources = <<>> THEN 0
    ELSE (IF Head(sources).type = "file" THEN 1 ELSE 0) + CountFiles(Tail(sources))

\* a filter that drops the first source, whatever its id
FilterOutFirst(sources, sourceId) == IF sources = <<>> THEN <<>> ELSE Tail(sources)

\* a filter that drops the source and every source after it
RECURSIVE FilterOutAfter(_, _)
FilterOutAfter(sources, sourceId) ==
    IF sources = <<>> THEN <<>>
    ELSE IF Head(sources).id # sourceId
         THEN <<Head(sources)>> \o FilterOutAfter(Tail(sources), sourceId)
         ELSE <<>>

\* record.sources.filter((source) => source.id !== sourceId)
RECURSIVE FilterOut(_, _)
FilterOut(sources, sourceId) ==
    IF sources = <<>> THEN <<>>
    ELSE IF Head(sources).id # sourceId
         THEN <<Head(sources)>> \o FilterOut(Tail(sources), sourceId)
         ELSE FilterOut(Tail(sources), sourceId)

\* embed ratios are hundredths: 20 is 0.2, 100 is 1
\* Math.min(1, Math.max(embedRatioInput ?? 1, 0.2))
ClampRatio(embedRatioInput) ==
    Min(100, Max(IF embedRatioInput = None THEN 100 ELSE embedRatioInput[1], 20))

\* Math.round(x) for x = n * ratio / 100 >= 0: floor(x + 0.5)
JsRound(n, ratio) == (2 * n * ratio + 100) \div 200

\* a limit that embeds every chunk
ChunkLimitAll(n, embedRatio) == n

\* Math.max(1, Math.round(chunks.length * embedRatio))
ChunkLimit(n, embedRatio) == Max(1, JsRound(n, embedRatio))

PreviewLength == 200

\* mapSourcesToSummary
mapSourcesToSummary(sources) ==
    [i \in 1..Len(sources) |->
        [id |-> sources[i].id, type |-> sources[i].type, label |-> sources[i].label,
         preview |-> IF sources[i].type = "instruction"
                     THEN Some(TSlice(sources[i].text, 0, PreviewLength))
                     ELSE None]]

\* toSummary
toSummary(record) ==
    [fileCount |-> record.fileCount, chunkCount |-> record.chunkCount,
     embeddedChunks |-> record.embeddedChunks, embedRatio |-> record.embedRatio,
     sources |-> mapSourcesToSummary(record.sources)]

\* the synchronous part of rebuildFromSources up to the embedding calls, and the
\* record it builds once the vector store is written (timestamps are not modelled)
RebuildPlan(ownerId, ownerType, sources, embedRatioInput) ==
    LET manualText == flattenSources(sources)
        chunks == chunkText(manualText, DefaultChunkSize, DefaultOverlap)
        embedRatio == ClampRatio(embedRatioInput)
        chunkLimit == ChunkLimit(Len(chunks), embedRatio)
        targetChunks == SubSeq(chunks, 1, Min(chunkLimit, Len(chunks)))
    IN [error |-> IF sources = <<>> \/ TTrim(manualText) = <<>> \/ chunks = <<>>
                  THEN "BadRequest" ELSE "",
        targetChunks |-> targetChunks,
        record |-> [manualText |-> manualText,
                    chunkCount |-> Len(chunks),
                    embeddedChunks |-> Len(targetChunks),
                    fileCount |-> CountFiles(sources),
                    embedRatio |-> embedRatio,
                    sources |-> sources,
                    ownerId |-> ownerId,
                    ownerType |-> ownerType]]

\* ------------------------------------------------------------------------
\* reconstructSourcesFromManualText: the header pattern
\*   /^===\s*(.+?)\s*===\s*$/gm
\* over the characters cs of the text; offsets count from 0, the character at
\* offset p is cs[p + 1]
\* ------------------------------------------------------------------------
RECURSIVE Chars(_)
Chars(t) ==
    IF t = <<>> THEN <<>>
    ELSE [i \in 1..Head(t).n |-> Head(t).c] \o Chars(Tail(t))

\* the length of the run of \s characters that starts at offset p
RECURSIVE WsRun(_, _)
WsRun(cs, p) == IF p < Len(cs) /\ IsWs(cs[p + 1]) THEN 1 + WsRun(cs, p + 1) ELSE 0

\* the literal === at offset p
IsEq3(cs, p) ==
    p + 3 <= Len(cs) /\ cs[p + 1] = "=" /\ cs[p + 2] = "=" /\ cs[p + 3] = "="

\* ^ and $ with the m flag
AtLineStart(cs, p) == p = 0 \/ cs[p] = "\n"

AtLineEnd(cs, p) == p = Len(cs) \/ cs[p + 1] = "\n"

\* \s*$ from offset c: the greedy \s* has taken the white space up to offset e
\* and gives characters back until $ holds; the offset where the match ends, -1
\* when there is none
RECURSIVE TailEndFrom(_, _, _)
TailEndFrom(cs, c, e) ==
    IF e < c THEN 0 - 1
    ELSE IF AtLineEnd(cs, e) THEN e
    ELSE TailEndFrom(cs, c, e - 1)

TailEnd(cs, c) == TailEndFrom(cs, c, c + WsRun(cs, c))

\* \s*===\s*$ from offset b: the first \s* takes the whole run of white space (a
\* shorter one leaves white space where === must start)
HeaderTail(cs, b) ==
    LET c == b + WsRun(cs, b)
    IN IF IsEq3(cs, c) THEN TailEnd(cs, c + 3) ELSE 0 - 1

\* (.+?) from offset a: lazy, the group grows one character that is not a newline
\* at a time, from the end b on, until the rest of the pattern matches; the
\* offset where the group ends, -1 when there is none
RECURSIVE GroupEnd(_, _)
GroupEnd(cs, b) ==
    IF b > Len(cs) THEN 0 - 1
    ELSE IF cs[b] = "\n" THEN 0 - 1
    ELSE IF HeaderTail(cs, b) >= 0 THEN b
    ELSE GroupEnd(cs, b + 1)

\* ===\s* from offset i: greedy, the \s* has taken the white space up to offset a
\* and gives characters back until the group matches; the offset where the group
\* starts, -1 when there is none
RECURSIVE GroupStart(_, _, _)
GroupStart(cs, i, a) ==
    IF a < i + 3 THEN 0 - 1
    ELSE IF GroupEnd(cs, a + 1) >= 0 THEN a
    ELSE GroupStart(cs, i, a - 1)

\* the match of a header whose group spans the offsets a to b
MatchSpan(cs, i, a, b) ==
    Some([index |-> i, end |-> HeaderTail(cs, b), group |-> SubSeq(cs, a + 1, b)])

\* the match of a header whose group starts at offset a (-1: there is none)
MatchGroup(cs, i, a) ==
    IF a < 0 THEN None ELSE MatchSpan(cs, i, a, GroupEnd(cs, a + 1))

\* the match that starts at offset i, or None
MatchAt(cs, i) ==
    IF ~(AtLineStart(cs, i) /\ IsEq3(cs, i)) THEN None
    ELSE MatchGroup(cs, i, GroupStart(cs, i, i + 3 + WsRun(cs, i + 3)))

\* Array.from(manualText.matchAll(headerPattern)): the matches from offset pos
\* on; MatchNext continues after the attempt at pos, which gave match
RECURSIVE MatchAll(_, _)
RECURSIVE MatchNext(_, _, _)
MatchNext(cs, pos, match) ==
    IF match # None THEN <<match[1]>> \o MatchAll(cs, match[1].end)
    ELSE MatchAll(cs, pos + 1)

MatchAll(cs, pos) ==
    IF pos >= Len(cs) THEN <<>> ELSE MatchNext(cs, pos, MatchAt(cs, pos))

\* String.prototype.toLowerCase on the letters of the model's labels; U, P, G and
\* M stand for the Korean words 사용자, 프롬프트, 기존, 매뉴얼 and have no case
LowerCase(c) ==
    CASE c = "A" -> "a" [] c = "B" -> "b" [] c = "Z" -> "z" [] c = "I" -> "i"
      [] c = "F" -> "f" [] c = "R" -> "r" [] c = "O" -> "o" [] c = "T" -> "t"
      [] OTHER -> c

\* haystack.includes(word)
Includes(cs, word) ==
    \E p \in 0..(Len(cs) - Len(word)) : SubSeq(cs, p + 1, p + Len(word)) = word

\* '프롬프트', 'prompt', 'instruction'
PromptTokens ==
    {<<"P">>, <<"p", "r", "o", "m", "p", "t">>,
     <<"i", "n", "s", "t", "r", "u", "c", "t", "i", "o", "n">>}

\* the type of a reconstructed source, from its header
HeaderType(header) ==
    LET chars == Chars(header)
        normalizedHeader == [i \in 1..Len(chars) |-> LowerCase(chars[i])]
    IN IF \E token \in PromptTokens : Includes(normalizedHeader, token)
       THEN "instruction" ELSE "file"

\* '기존 매뉴얼' ("existing manual")
LegacyLabel == FromChars(<<"G", " ", "M">>)

\* the single source that covers the whole text
WholeTextSource(manualText, id) ==
    [id |-> id, type |-> "instruction", label |-> LegacyLabel, text |-> manualText]

\* sources.push({ id, type, label: header, text: sectionText })
PushedSource(id, header, sectionText) ==
    [id |-> id, type |-> HeaderType(header), label |-> header, text |-> sectionText]

\* matches.forEach: one source per header whose section text is not blank; ids
\* are drawn in the order of the pushes
RECURSIVE Sections(_, _, _, _)
RECURSIVE SectionsNext(_, _, _, _, _, _)
SectionsNext(manualText, matches, index, id, header, sectionText) ==
    IF sectionText = <<>> THEN Sections(manualText, matches, index + 1, id)
    ELSE <<PushedSource(id, header, sectionText)>>
         \o Sections(manualText, matches, index + 1, id + 1)

Sections(manualText, matches, index, id) ==
    IF index > Len(matches) THEN <<>>
    ELSE LET start == matches[index].end
             end == IF index < Len(matches) THEN matches[index + 1].index
                    ELSE TLen(manualText)
         IN SectionsNext(manualText, matches, index, id,
                         TTrim(FromChars(matches[index].group)),
                         TTrim(TSlice(manualText, start, end)))

\* the sources of the matches, or the single source when there is no match or
\* no section with text
SourcesOrWholeText(manualText, matches, sources, firstId) ==
    IF matches = <<>> \/ sources = <<>>
    THEN <<WholeTextSource(manualText, firstId)>>
    ELSE sources

\* the sources of the matches
SourcesOfMatches(manualText, matches, firstId) ==
    SourcesOrWholeText(manualText, matches,
                       Sections(manualText, matches, 1, firstId), firstId)

\* reconstructSourcesFromManualText(manualText, updatedAt); firstId is the next
\* value of randomUUID()
reconstructSourcesFromManualText(manualText, firstId) ==
    SourcesOfMatches(manualText, MatchAll(Chars(manualText), 0), firstId)

\* ------------------------------------------------------------------------
\* State
\* ------------------------------------------------------------------------
\* db                     the projects and conversations tables (DatabaseService)
\* manualFiles              storage/manuals/<ownerId>.json, one optional record per id
\* documentsByConversation  VectorStoreService.documentsByConversation
\* manualsTable             the manuals table: one optional metadata row per owner id
\* req                      the requests being served: their arguments, the locals
\*                          that live across an await, the position, the response
\* nextId                   the next value of randomUUID()
\* retrieved                the response of the last retrieval (buildContext)
\* statusReply              the response of the last status query
\* ck                       the locals of one run of chunkText
\* vectorFile               the file vector-store.json and the writes of it in flight
VARIABLES db, manualFiles, documentsByConversation, manualsTable, req, nextId,
          retrieved, statusReply, ck, vectorFile

vars == <<db, manualFiles, documentsByConversation, manualsTable, req, nextId,
          retrieved, statusReply, ck, vectorFile>>

\* every id a request can name: a project, its two conversations, a conversation
\* without a project, a guest session id
Ids == {"p1", "c1", "c2", "c3", "g1"}

Users == {"u1", "u2"}

MaxReq == 2

\* values of randomUUID() that the reads of a record without sources may draw
MaxId == 2

Slots == 1..MaxReq

DbInit ==
    [projects |-> [p \in {"p1"} |-> [user_id |-> "u1"]],
     conversations |->
        [c \in {"c1", "c2", "c3"} |->
            IF c = "c3" THEN [user_id |-> "u2", project_id |-> None]
            ELSE [user_id |-> "u1", project_id |-> Some("p1")]]]

ReqIdle ==
    [pc |-> "idle", kind |-> "", entry |-> "", arg |-> "", user |-> None,
     ownerId |-> "", ownerType |-> "", given |-> None, mode |-> "", sourceId |-> 0,
     sources |-> <<>>, embedRatio |-> None, created |-> {},
     result |-> "", hasManual |-> FALSE, stats |-> None,
     overlap |-> FALSE, preFile |-> None, preDocs |-> <<>>]

ckIdle == [pc |-> "idle", text |-> <<>>, chunkSize |-> 0, overlap |-> 0,
           start |-> 0, chunks |-> <<>>, iter |-> 0]

\* vector-store.json: the store it holds, and for each request the store that a
\* persist() of the request has serialized and is writing; onModuleInit loads the
\* file into documentsByConversation, so file and memory agree at the start
Loaded(store) == [data |-> store, pending |-> [r \in Slots |-> None]]

\* persist(): JSON.stringify(this.documentsByConversation) is taken when persist
\* is called; fs.writeFile writes it later
Persisting(file, r, store) == [file EXCEPT !.pending[r] = Some(store)]

\* fs.writeFile of vector-store.json settles: the file holds what the call had
\* serialized, whatever other calls wrote meanwhile; a failed write leaves it
Persisted(file, r, ok) ==
    [data |-> IF ok THEN file.pending[r][1] ELSE file.data,
     pending |-> [file.pending EXCEPT ![r] = None]]

Init ==
    /\ db = DbInit
    /\ manualFiles = [o \in Ids |-> None]
    /\ documentsByConversation = [o \in Ids |-> <<>>]
    /\ manualsTable = [o \in Ids |-> None]
    /\ req = [r \in Slots |-> ReqIdle]
    /\ nextId = 1
    /\ vectorFile = Loaded(documentsByConversation)
    /\ retrieved = None
    /\ statusReply = None
    /\ ck = ckIdle

\* a resolver without the comparison of the owner's principal with the caller
resolveOwnerUnchecked(database, conversationId, user) ==
    IF conversationId \notin DOMAIN database.conversations
    THEN IF user # None
         THEN [error |-> "NotFound", ownerId |-> "", ownerType |-> ""]
         ELSE [error |-> "", ownerId |-> conversationId, ownerType |-> "guest"]
    ELSE IF database.conversations[conversationId].project_id # None
    THEN [error |-> "", ownerId |-> database.conversations[conversationId].project_id[1],
          ownerType |-> "project"]
    ELSE [error |-> "", ownerId |-> conversationId, ownerType |-> "conversation"]

\* ------------------------------------------------------------------------
\* Owner resolution and reading
\* ------------------------------------------------------------------------
\* resolveOwnerFromConversation(conversationId, user)
resolveOwnerFromConversation(database, conversationId, user) ==
    IF conversationId \notin DOMAIN database.conversations
    THEN IF user # None
         THEN [error |-> "NotFound", ownerId |-> "", ownerType |-> ""]
         ELSE [error |-> "", ownerId |-> conversationId, ownerType |-> "guest"]
    ELSE LET row == database.conversations[conversationId]
             project_owner_id ==
                 IF row.project_id # None /\ row.project_id[1] \in DOMAIN database.projects
                 THEN Some(database.projects[row.project_id[1]].user_id)
                 ELSE None
             ownerUserId == IF project_owner_id # None THEN project_owner_id[1]
                            ELSE row.user_id
         IN IF user # None /\ ownerUserId # user[1]
            THEN [error |-> "Forbidden", ownerId |-> "", ownerType |-> ""]
            ELSE IF row.project_id # None
            THEN [error |-> "", ownerId |-> row.project_id[1], ownerType |-> "project"]
            ELSE [error |-> "", ownerId |-> conversationId, ownerType |-> "conversation"]

\* ProjectsService.getProjectOrThrow(projectId, userId): "" when it returns
getProjectOrThrow(database, projectId, userId) ==
    IF projectId \notin DOMAIN database.projects THEN "NotFound"
    ELSE IF database.projects[projectId].user_id # userId THEN "Forbidden"
    ELSE ""

\* the content of a file that fs.writeFile has opened (flag 'w': truncated) and
\* not written yet: no characters
EmptyFile == [length |-> 0]

\* the sources of normalizeRecord: the stored list when it has entries (every
\* stored source has its id: createSourcesFromPayload and the reconstruction set
\* it), otherwise the reconstruction from manualText
NormalizedSources(raw, firstId) ==
    IF "sources" \in DOMAIN raw /\ Len(raw.sources) > 0 THEN raw.sources
    ELSE reconstructSourcesFromManualText(raw.manualText, firstId)

\* normalizeRecord(raw, ownerId, defaultOwnerType): raw is a partial record, a
\* record with some of the fields of ManualCacheRecord; firstId is the next
\* value of randomUUID()
normalizeRecord(raw, ownerId, defaultOwnerType, firstId) ==
    IF raw = None THEN None
    ELSE IF "manualText" \notin DOMAIN raw[1] THEN None
    ELSE IF TTrim(raw[1].manualText) = <<>> THEN None
    ELSE LET embedRatio == ClampRatio(IF "embedRatio" \in DOMAIN raw[1]
                                      THEN Some(raw[1].embedRatio) ELSE None)
             sources == NormalizedSources(raw[1], firstId)
         IN Some([manualText |-> raw[1].manualText,
                  chunkCount |-> IF "chunkCount" \in DOMAIN raw[1]
                                 THEN raw[1].chunkCount ELSE 0,
                  embeddedChunks |-> IF "embeddedChunks" \in DOMAIN raw[1]
                                     THEN raw[1].embeddedChunks ELSE 0,
                  fileCount |-> IF "fileCount" \in DOMAIN raw[1]
                                THEN raw[1].fileCount ELSE CountFiles(sources),
                  embedRatio |-> embedRatio,
                  sources |-> sources,
                  ownerId |-> ownerId,
                  ownerType |-> IF "ownerType" \in DOMAIN raw[1]
                                THEN raw[1].ownerType ELSE defaultOwnerType])

\* readManualFile(ownerId, ownerType): null when the file is missing (ENOENT) and
\* when JSON.parse throws, as it does on a file without characters
readManualFile(files, ownerId, ownerType, firstId) ==
    IF files[ownerId] = None THEN None
    ELSE IF files[ownerId][1] = EmptyFile THEN None
    ELSE normalizeRecord(files[ownerId], ownerId, ownerType, firstId)

\* the number of randomUUID() calls of readManualFile: one per reconstructed source
IdsDrawn(files, ownerId) ==
    LET raw == files[ownerId]
    IN IF raw = None THEN 0
       ELSE IF "manualText" \notin DOMAIN raw[1] THEN 0
       ELSE IF TTrim(raw[1].manualText) = <<>> THEN 0
       ELSE IF "sources" \in DOMAIN raw[1] /\ Len(raw[1].sources) > 0 THEN 0
       ELSE Len(reconstructSourcesFromManualText(raw[1].manualText, 0))

\* a loop over the files that keeps the files without text
RECURSIVE FileSourcesKeepBlank(_, _)
FileSourcesKeepBlank(files, firstId) ==
    IF files = <<>> THEN <<>>
    ELSE <<[id |-> firstId, type |-> "file", label |-> Head(files).label,
            text |-> Head(files).text]>>
         \o FileSourcesKeepBlank(Tail(files), firstId + 1)

\* createSourcesFromPayload: one file source per file with non-blank text, then one
\* instruction source for non-blank instruction text; ids are fresh
RECURSIVE FileSources(_, _)
FileSources(files, firstId) ==
    IF files = <<>> THEN <<>>
    ELSE IF TTrim(Head(files).text) = <<>> THEN FileSources(Tail(files), firstId)
    ELSE <<[id |-> firstId, type |-> "file", label |-> Head(files).label,
            text |-> Head(files).text]>>
         \o FileSources(Tail(files), firstId + 1)

createSourcesFromPayload(files, instructionText, firstId) ==
    LET attachments == FileSources(files, firstId)
    IN IF instructionText # None /\ TTrim(instructionText[1]) # <<>>
       THEN Append(attachments,
                   [id |-> firstId + Len(attachments), type |-> "instruction",
                    label |-> UserPromptLabel, text |-> TTrim(instructionText[1])])
       ELSE attachments

\* ------------------------------------------------------------------------
\* Requests
\* ------------------------------------------------------------------------
InFlight(q) == q.pc \notin {"idle", "done"}

\* the slot of the next request
FreeSlot(r) == r = Cardinality({q \in Slots : req[q].pc # "idle"}) + 1

\* a request that answers as if it had succeeded where it must fail
RejectedAsOk(q, e) == [q EXCEPT !.pc = "done", !.result = "ok"]

\* the request q fails with error e before it awaits anything
Rejected(q, e) == [q EXCEPT !.pc = "done", !.result = e]

\* request r becomes q; requests in flight for the same owner overlap with it
Admit(r, q) ==
    req' = [x \in Slots |->
               IF x = r THEN [q EXCEPT !.overlap =
                                 InFlight(q) /\ \E y \in Slots \ {r} :
                                     InFlight(req[y]) /\ req[y].ownerId = q.ownerId]
               ELSE IF InFlight(q) /\ InFlight(req[x]) /\ req[x].ownerId = q.ownerId
               THEN [req[x] EXCEPT !.overlap = TRUE]
               ELSE req[x]]

\* the owner a request of a controller addresses: {error, ownerId, ownerType}
\*   manuals   ManualsController (JwtAuthGuard): resolves the conversation with the user
\*   guest     GuestManualsController.ingest: resolves the conversation without a user
\*   projects  ProjectsController: getProjectOrThrow, then the project id as owner
IngestOwner(entry, arg, user) ==
    IF entry = "projects"
    THEN LET e == getProjectOrThrow(db, arg, user[1])
         IN IF e # "" THEN [error |-> e, ownerId |-> "", ownerType |-> ""]
            ELSE IF arg = "" THEN [error |-> "BadRequest", ownerId |-> "", ownerType |-> ""]
            ELSE [error |-> "", ownerId |-> arg, ownerType |-> "project"]
    ELSE IF arg = "" THEN [error |-> "BadRequest", ownerId |-> "", ownerType |-> ""]
    ELSE resolveOwnerFromConversation(db, arg, user)

\* a merge that drops the sources of the existing record
MergeSourcesUploadedOnly(existingSources, uploadedSources) == uploadedSources

\* a merge that puts the uploaded sources first
MergeSourcesNewFirst(existingSources, uploadedSources) ==
    uploadedSources \o existingSources

\* [...existingSources, ...uploadedSources]
MergeSources(existingSources, uploadedSources) == existingSources \o uploadedSources

\* ManualsService.ingest / ingestForProject and ingestInternal up to the embedding
\* calls of rebuildFromSources: resolve the owner, read the existing record (append),
\* create the sources, merge, flatten and chunk
IngestStart(r, entry, arg, user, payload) ==
    /\ FreeSlot(r)
    /\ (entry = "guest") = (user = None)
    /\ LET q0 == [ReqIdle EXCEPT !.kind = "ingest", !.entry = entry, !.arg = arg,
                                 !.user = user, !.given = payload.mode]
           owner == IngestOwner(entry, arg, user)
           mode == IF payload.mode = Some("replace") THEN "replace" ELSE "append"
           existingRecord == IF mode = "append"
                             THEN readManualFile(manualFiles, owner.ownerId,
                                                 owner.ownerType, nextId)
                             ELSE None
           drawn == IF mode = "append" THEN IdsDrawn(manualFiles, owner.ownerId) ELSE 0
           existingSources == IF mode = "append" /\ existingRecord # None
                              THEN existingRecord[1].sources ELSE <<>>
           uploadedSources == createSourcesFromPayload(payload.files,
                                                       payload.instructionText,
                                                       nextId + drawn)
           mergedSources == MergeSources(existingSources, uploadedSources)
           q1 == [q0 EXCEPT !.ownerId = owner.ownerId, !.ownerType = owner.ownerType,
                            !.mode = mode,
                            !.created = {uploadedSources[i].id :
                                            i \in 1..Len(uploadedSources)},
                            !.preFile = manualFiles[owner.ownerId],
                            !.preDocs = documentsByConversation[owner.ownerId]]
       IN IF owner.error # ""
          THEN /\ Admit(r, Rejected(q0, owner.error))
               /\ UNCHANGED nextId
          ELSE /\ nextId' = nextId + drawn + Len(uploadedSources)
               /\ IF mergedSources = <<>>
                     \/ RebuildPlan(owner.ownerId, owner.ownerType, mergedSources,
                                    payload.embedRatio).error # ""
                  THEN Admit(r, Rejected(q1, "BadRequest"))
                  ELSE Admit(r, [q1 EXCEPT !.pc = "embedding",
                                           !.sources = mergedSources,
                                           !.embedRatio = payload.embedRatio])
    /\ UNCHANGED <<statusReply, db, manualFiles, documentsByConversation, manualsTable,
                   retrieved, ck, vectorFile>>

\* a rebuild that replaces the documents before the embedding calls have settled
EmbedDoneWritesFirst(r, ok) ==
    /\ req[r].pc = "embedding"
    /\ LET q == req[r]
           plan == RebuildPlan(q.ownerId, q.ownerType, q.sources, q.embedRatio)
           embeddings == [i \in 1..Len(plan.targetChunks) |-> embed(plan.targetChunks[i])]
       IN /\ documentsByConversation' =
                [documentsByConversation EXCEPT ![q.ownerId] =
                    MakeDocuments(plan.targetChunks, embeddings)]
          /\ req' = [req EXCEPT ![r] = IF ok THEN [q EXCEPT !.pc = "vecwrite"]
                                       ELSE Rejected(q, "UpstreamError")]
          /\ vectorFile' = IF ok THEN Persisting(vectorFile, r, documentsByConversation')
                           ELSE vectorFile
    /\ UNCHANGED <<statusReply, db, manualFiles, manualsTable, nextId, retrieved, ck>>

\* await Promise.all(targetChunks.map((chunk) => embed(chunk))) settles. When an
\* embedding call rejects the request fails; otherwise replaceDocuments puts the
\* new documents in documentsByConversation and starts writing vector-store.json
EmbedDone(r, ok) ==
    /\ req[r].pc = "embedding"
    /\ LET q == req[r]
           plan == RebuildPlan(q.ownerId, q.ownerType, q.sources, q.embedRatio)
           embeddings == [i \in 1..Len(plan.targetChunks) |-> embed(plan.targetChunks[i])]
       IN IF ok
          THEN /\ documentsByConversation' =
                     [documentsByConversation EXCEPT ![q.ownerId] =
                         MakeDocuments(plan.targetChunks, embeddings)]
               /\ vectorFile' = Persisting(vectorFile, r, documentsByConversation')
               /\ req' = [req EXCEPT ![r].pc = "vecwrite"]
          ELSE /\ req' = [req EXCEPT ![r] = Rejected(q, "UpstreamError")]
               /\ UNCHANGED <<documentsByConversation, vectorFile>>
    /\ UNCHANGED <<statusReply, db, manualFiles, manualsTable, nextId, retrieved, ck>>

\* VectorStoreService.persist: fs.writeFile of vector-store.json settles; then
\* rebuildFromSources builds the record and persistManual starts writing it
VecWriteDone(r, ok) ==
    /\ req[r].pc = "vecwrite"
    /\ req' = [req EXCEPT ![r] = IF ok THEN [req[r] EXCEPT !.pc = "recopen"]
                                 ELSE Rejected(req[r], "IoError")]
    /\ vectorFile' = Persisted(vectorFile, r, ok)
    /\ UNCHANGED <<statusReply, db, manualFiles, documentsByConversation, manualsTable, nextId,
                   retrieved, ck>>

\* persistManual: fs.writeFile opens <ownerId>.json with flag 'w', which creates
\* or truncates the file; the data is written by a later operation of the thread
\* pool, and a readFile between the two finds a file without characters
RecOpenDone(r, ok) ==
    /\ req[r].pc = "recopen"
    /\ IF ok
       THEN /\ manualFiles' = [manualFiles EXCEPT ![req[r].ownerId] = Some(EmptyFile)]
            /\ req' = [req EXCEPT ![r].pc = "recwrite"]
       ELSE /\ req' = [req EXCEPT ![r] = Rejected(req[r], "IoError")]
            /\ UNCHANGED manualFiles
    /\ UNCHANGED <<statusReply, db, documentsByConversation, manualsTable, nextId,
                   retrieved, ck, vectorFile>>

\* persistManual: fs.writeFile of <ownerId>.json settles; then persistMetadata
\* upserts the manuals row and the summary is returned
RecWriteDone(r, ok) ==
    /\ req[r].pc = "recwrite"
    /\ LET q == req[r]
           record == RebuildPlan(q.ownerId, q.ownerType, q.sources, q.embedRatio).record
       IN IF ok
          THEN /\ manualFiles' = [manualFiles EXCEPT ![q.ownerId] = Some(record)]
               /\ manualsTable' =
                     [manualsTable EXCEPT ![q.ownerId] =
                         Some([owner_type |-> q.ownerType,
                               file_count |-> record.fileCount,
                               chunk_count |-> record.chunkCount,
                               embedded_chunks |-> record.embeddedChunks])]
               /\ req' = [req EXCEPT ![r] =
                            [q EXCEPT !.pc = "done", !.result = "ok",
                                      !.hasManual = TRUE,
                                      !.stats = Some(toSummary(record))]]
          ELSE /\ req' = [req EXCEPT ![r] = Rejected(q, "IoError")]
               /\ UNCHANGED <<statusReply, manualFiles, manualsTable, vectorFile>>
    /\ UNCHANGED <<statusReply, db, documentsByConversation, nextId, retrieved, ck,
                   vectorFile>>

\* the owner a removal request of a controller addresses
\*   manuals   removeSourceForConversation: resolves the conversation with the user
\*   guest     GuestManualsController.removeSource: removeSource(conversationId, sourceId)
\*   projects  ProjectsController.removeManualSource: getProjectOrThrow, then
\*             removeSource(projectId, sourceId)
\* removeSource's ownerType parameter defaults to 'project'
RemoveOwner(entry, arg, user) ==
    IF entry = "manuals" THEN resolveOwnerFromConversation(db, arg, user)
    ELSE IF entry = "projects" /\ getProjectOrThrow(db, arg, user[1]) # ""
    THEN [error |-> getProjectOrThrow(db, arg, user[1]), ownerId |-> "", ownerType |-> ""]
    ELSE [error |-> "", ownerId |-> arg, ownerType |-> "project"]

\* removeSource up to its first write: read the record, filter the source out, and
\* either start deleteManual (nothing left) or rebuildFromSources up to the
\* embedding calls; sourceId 0 stands for a blank id
RemoveStart(r, entry, arg, user, sourceId) ==
    /\ FreeSlot(r)
    /\ (entry = "guest") = (user = None)
    /\ LET q0 == [ReqIdle EXCEPT !.kind = "remove", !.entry = entry, !.arg = arg,
                                 !.user = user, !.sourceId = sourceId]
           owner == RemoveOwner(entry, arg, user)
           record == readManualFile(manualFiles, owner.ownerId, owner.ownerType, nextId)
           remainingSources == FilterOut(record[1].sources, sourceId)
           q1 == [q0 EXCEPT !.ownerId = owner.ownerId, !.ownerType = owner.ownerType,
                            !.preFile = manualFiles[owner.ownerId],
                            !.preDocs = documentsByConversation[owner.ownerId]]
       IN IF owner.error # "" THEN Admit(r, Rejected(q0, owner.error))
          ELSE IF owner.ownerId = "" \/ sourceId = 0
          THEN Admit(r, Rejected(q0, "BadRequest"))
          ELSE IF record = None THEN Admit(r, Rejected(q1, "NotFound"))
          ELSE IF Len(remainingSources) = Len(record[1].sources)
          THEN Admit(r, Rejected(q1, "NotFound"))
          ELSE IF remainingSources = <<>> THEN Admit(r, [q1 EXCEPT !.pc = "unlink"])
          ELSE IF RebuildPlan(owner.ownerId, owner.ownerType, remainingSources,
                              Some(record[1].embedRatio)).error # ""
          THEN Admit(r, Rejected(q1, "BadRequest"))
          ELSE Admit(r, [q1 EXCEPT !.pc = "embedding", !.sources = remainingSources,
                                   !.embedRatio = Some(record[1].embedRatio)])
    /\ nextId' = IF RemoveOwner(entry, arg, user).error # ""
                    \/ RemoveOwner(entry, arg, user).ownerId = "" \/ sourceId = 0
                 THEN nextId
                 ELSE nextId + IdsDrawn(manualFiles, RemoveOwner(entry, arg, user).ownerId)
    /\ UNCHANGED <<statusReply, db, manualFiles, documentsByConversation, manualsTable,
                   retrieved, ck, vectorFile>>

\* a deleteManual that leaves the file in place
UnlinkedKept(files, ownerId) == files

\* deleteManual: the file <ownerId>.json after fs.unlink (a missing file, ENOENT,
\* is ignored)
Unlinked(files, ownerId) == [files EXCEPT ![ownerId] = None]

\* VectorStoreService.clearDocuments(ownerId): remove all documents of the owner
clearDocuments(store, ownerId) == [store EXCEPT ![ownerId] = <<>>]

\* deleteManual: fs.unlink settles, then clearDocuments empties the owner's
\* documents and starts writing vector-store.json
UnlinkDone(r) ==
    /\ req[r].pc = "unlink"
    /\ manualFiles' = Unlinked(manualFiles, req[r].ownerId)
    /\ documentsByConversation' = clearDocuments(documentsByConversation, req[r].ownerId)
    /\ vectorFile' = Persisting(vectorFile, r, documentsByConversation')
    /\ req' = [req EXCEPT ![r].pc = "clear"]
    /\ UNCHANGED <<statusReply, db, manualsTable, nextId, retrieved, ck>>

\* deleteManual: the write of clearDocuments settles, then the manuals row is
\* deleted and removeSource returns { hasManual: false }
ClearDone(r, ok) ==
    /\ req[r].pc = "clear"
    /\ IF ok
       THEN /\ manualsTable' = [manualsTable EXCEPT ![req[r].ownerId] = None]
            /\ req' = [req EXCEPT ![r] = [req[r] EXCEPT !.pc = "done", !.result = "ok",
                                                       !.hasManual = FALSE]]
       ELSE /\ req' = [req EXCEPT ![r] = Rejected(req[r], "IoError")]
            /\ UNCHANGED manualsTable
    /\ vectorFile' = Persisted(vectorFile, r, ok)
    /\ UNCHANGED <<statusReply, db, manualFiles, documentsByConversation, nextId,
                   retrieved, ck>>

\* getManualStatus(ownerId, ownerType): { hasManual, stats? }
getManualStatus(files, ownerId, ownerType, firstId) ==
    LET record == readManualFile(files, ownerId, ownerType, firstId)
    IN IF record = None THEN [hasManual |-> FALSE, stats |-> None]
       ELSE [hasManual |-> TRUE, stats |-> Some(toSummary(record[1]))]

\* the owner a status query of a controller addresses
\*   manuals   getManualStatusForUser: resolves the conversation with the user
\*   guest     GuestManualsController.status: getManualStatus(conversationId)
\*   projects  ProjectsController.manualStatus: getProjectOrThrow, then
\*             getManualStatus(projectId)
\* getManualStatus's ownerType parameter defaults to 'project'
StatusOwner(entry, arg, user) ==
    IF entry = "manuals" THEN resolveOwnerFromConversation(db, arg, user)
    ELSE IF entry = "projects" /\ getProjectOrThrow(db, arg, user[1]) # ""
    THEN [error |-> getProjectOrThrow(db, arg, user[1]), ownerId |-> "", ownerType |-> ""]
    ELSE [error |-> "", ownerId |-> arg, ownerType |-> "project"]

\* a status query that stores the record as it read it
StatusWritesBack(entry, arg, user) ==
    /\ (entry = "guest") = (user = None)
    /\ LET owner == StatusOwner(entry, arg, user)
           drawn == IF owner.error # "" THEN 0 ELSE IdsDrawn(manualFiles, owner.ownerId)
           status == getManualStatus(manualFiles, owner.ownerId, owner.ownerType, nextId)
       IN /\ drawn = 0 \/ nextId + drawn <= MaxId + 1
          /\ nextId' = nextId + drawn
          /\ statusReply' =
                IF owner.error # ""
                THEN Some([entry |-> entry, arg |-> arg, user |-> user,
                           ownerId |-> "", ownerType |-> "", result |-> owner.error,
                           hasManual |-> FALSE, stats |-> None])
                ELSE Some([entry |-> entry, arg |-> arg, user |-> user,
                           ownerId |-> owner.ownerId, ownerType |-> owner.ownerType,
                           result |-> "ok",
                           hasManual |-> status.hasManual, stats |-> status.stats])
          /\ manualFiles' =
                IF owner.error # "" THEN manualFiles
                ELSE [manualFiles EXCEPT ![owner.ownerId] =
                         readManualFile(manualFiles, owner.ownerId, owner.ownerType,
                                        nextId)]
    /\ UNCHANGED <<db, documentsByConversation, manualsTable, req, retrieved, ck, vectorFile>>

\* a status query: the owner, one read of the record file, the response
Status(entry, arg, user) ==
    /\ (entry = "guest") = (user = None)
    /\ LET owner == StatusOwner(entry, arg, user)
           drawn == IF owner.error # "" THEN 0 ELSE IdsDrawn(manualFiles, owner.ownerId)
           status == getManualStatus(manualFiles, owner.ownerId, owner.ownerType, nextId)
       IN /\ drawn = 0 \/ nextId + drawn <= MaxId + 1
          /\ nextId' = nextId + drawn
          /\ statusReply' =
                IF owner.error # ""
                THEN Some([entry |-> entry, arg |-> arg, user |-> user,
                           ownerId |-> "", ownerType |-> "", result |-> owner.error,
                           hasManual |-> FALSE, stats |-> None])
                ELSE Some([entry |-> entry, arg |-> arg, user |-> user,
                           ownerId |-> owner.ownerId, ownerType |-> owner.ownerType,
                           result |-> "ok",
                           hasManual |-> status.hasManual, stats |-> status.stats])
    /\ UNCHANGED <<db, manualFiles, documentsByConversation, manualsTable, req,
                   retrieved, ck, vectorFile>>

\* ------------------------------------------------------------------------
\* Retrieval (SimulationsService.customerRespond / employeeRespond)
\* ------------------------------------------------------------------------
\* ConversationsService.getConversationOrThrow(conversationId, userId): the
\* conversation joined with its project; "" when it returns
getConversationOrThrow(database, conversationId, userId) ==
    IF conversationId \notin DOMAIN database.conversations THEN "NotFound"
    ELSE LET row == database.conversations[conversationId]
         IN IF row.project_id = None \/ row.project_id[1] \notin DOMAIN database.projects
            THEN "NotFound"
            ELSE IF database.projects[row.project_id[1]].user_id # userId THEN "Forbidden"
            ELSE ""

\* the key buildContext passes to queryByEmbedding
ContextKey(database, conversationId) == conversationId

\* buildContext(conversationId, query): the contents of the top 3 documents
buildContext(database, store, conversationId, query) ==
    LET embedding == embed(query)
    IN IF Len(embedding) = 0 THEN <<>>
       ELSE LET docs == queryByEmbedding(store, ContextKey(database, conversationId),
                                         embedding, DefaultTopK)
            IN [i \in 1..Len(docs) |-> docs[i].content]

\* customerRespond / employeeRespond up to the prompt: the conversation check of an
\* authenticated caller, getManualOrThrow, buildContext. The manual and the
\* documents are read in one step
Respond(conversationId, user, query) ==
    /\ LET denied == IF user # None
                     THEN getConversationOrThrow(db, conversationId, user[1]) ELSE ""
           owner == resolveOwnerFromConversation(db, conversationId, None)
           manual == readManualFile(manualFiles, owner.ownerId, owner.ownerType, nextId)
           answer == [conversationId |-> conversationId, user |-> user, query |-> query,
                      result |-> "ok", context |-> <<>>]
       IN retrieved' =
              IF denied # "" THEN Some([answer EXCEPT !.result = denied])
              ELSE IF manual = None THEN Some([answer EXCEPT !.result = "NotFound"])
              ELSE Some([answer EXCEPT !.context =
                            buildContext(db, documentsByConversation, conversationId, query)])
    /\ LET owner == resolveOwnerFromConversation(db, conversationId, None)
           denied == IF user # None
                     THEN getConversationOrThrow(db, conversationId, user[1]) ELSE ""
           drawn == IF denied # "" THEN 0 ELSE IdsDrawn(manualFiles, owner.ownerId)
       IN /\ drawn = 0 \/ nextId + drawn <= MaxId + 1
          /\ nextId' = nextId + drawn
    /\ UNCHANGED <<statusReply, db, manualFiles, documentsByConversation, manualsTable,
                   req, ck, vectorFile>>

\* ------------------------------------------------------------------------
\* Inputs
\* ------------------------------------------------------------------------
FileA == [label |-> FromChars(<<"A">>), text |-> Str("a", 3)]

FileB == [label |-> FromChars(<<"B">>), text |-> TCat(Str("b", 2), Str(" ", 1))]

FileBlank == [label |-> FromChars(<<"Z">>), text |-> Str(" ", 2)]

Payload(files, instructionText, mode, embedRatio) ==
    [files |-> files, instructionText |-> instructionText, mode |-> mode,
     embedRatio |-> embedRatio]

\* one file appended; a blank file (skipped) and an instruction, mode omitted; two
\* files and a blank instruction, replacing
Payloads ==
    {Payload(<<FileA>>, None, Some("append"), Some(100)),
     Payload(<<FileBlank>>, Some(Str("b", 2)), None, Some(50)),
     Payload(<<FileB, FileA>>, Some(Str(" ", 1)), Some("replace"), Some(10))}

\* <<controller, id, user>>: the owner of project p1 through the project routes,
\* and a guest session
Callers ==
    {<<"projects", "p1", Some("u1")>>,
     <<"guest", "g1", None>>}

\* ------------------------------------------------------------------------
\* Specification: concurrent ingestion and removal requests
\* ------------------------------------------------------------------------
Next ==
    \/ \E r \in Slots, c \in Callers, p \in Payloads : IngestStart(r, c[1], c[2], c[3], p)
    \/ \E r \in Slots, c \in Callers, sourceId \in 1..(nextId - 1) :
           RemoveStart(r, c[1], c[2], c[3], sourceId)
    \/ \E r \in Slots, ok \in BOOLEAN : EmbedDone(r, ok)
    \/ \E r \in Slots, ok \in BOOLEAN : VecWriteDone(r, ok)
    \/ \E r \in Slots, ok \in BOOLEAN : RecOpenDone(r, ok)
    \/ \E r \in Slots, ok \in BOOLEAN : RecWriteDone(r, ok)
    \/ \E r \in Slots : UnlinkDone(r)
    \/ \E r \in Slots, ok \in BOOLEAN : ClearDone(r, ok)

Spec == Init /\ [][Next]_vars

\* ------------------------------------------------------------------------
\* The chunker followed one loop iteration at a time
\* ------------------------------------------------------------------------
\* lead blanks, then body letters, then trail blanks
Padded(lead, body, trail) == TCat(TCat(Str(" ", lead), Str("a", body)), Str(" ", trail))

ChunkLens == {0, 1, 2, 3, 699, 700, 701, 750, 799, 800, 801, 1400, 1401, 1500}

ChunkTexts ==
    {Padded(0, n, 0) : n \in ChunkLens}
    \cup {Padded(l, n, t) : l \in {0, 2}, n \in {1, 3, 698, 700, 797}, t \in {0, 1, 60}}
    \cup {TCat(Padded(0, 700, 50), Str("b", n)) : n \in {0, 10, 49}}
    \cup {TCat(Padded(0, 650, 100), Str("b", n)) : n \in {0, 10, 49}}

\* (chunkSize, overlap) pairs: the defaults and small windows, overlap up to and
\* beyond the window size
ChunkParams ==
    {<<DefaultChunkSize, DefaultOverlap>>}
    \cup {<<cs, ov>> : cs \in {1, 2, 3}, ov \in {0, 1, 2, 3}}

InitChunk ==
    \E text \in ChunkTexts, p \in ChunkParams :
        /\ p[1] = DefaultChunkSize \/ TLen(text) <= 3
        /\ ck = [pc |-> "loop", text |-> text, chunkSize |-> p[1], overlap |-> p[2],
                 start |-> 0, chunks |-> <<>>, iter |-> 0]
        /\ db = DbInit
        /\ manualFiles = [o \in Ids |-> None]
        /\ documentsByConversation = [o \in Ids |-> <<>>]
        /\ manualsTable = [o \in Ids |-> None]
        /\ req = [r \in Slots |-> ReqIdle]
        /\ nextId = 1
        /\ vectorFile = Loaded(documentsByConversation)
        /\ retrieved = None
        /\ statusReply = None

\* while (start < text.length) { ... }
ChunkStep ==
    /\ ck.pc = "loop"
    /\ ck.start < TLen(ck.text)
    /\ ck.iter < MaxIter
    /\ LET it == ChunkIter(ck.text, ck.chunkSize, ck.overlap, ck.start, ck.chunks)
       IN ck' = [ck EXCEPT !.start = it.start, !.chunks = it.chunks,
                           !.iter = ck.iter + 1]
    /\ UNCHANGED <<statusReply, db, manualFiles, documentsByConversation, manualsTable, req, nextId,
                   retrieved, vectorFile>>

\* return chunks
ChunkReturn ==
    /\ ck.pc = "loop"
    /\ ~(ck.start < TLen(ck.text))
    /\ ck' = [ck EXCEPT !.pc = "done"]
    /\ UNCHANGED <<statusReply, db, manualFiles, documentsByConversation, manualsTable, req, nextId,
                   retrieved, vectorFile>>

NextChunk == ChunkStep \/ ChunkReturn

SpecChunk == InitChunk /\ [][NextChunk]_vars

\* ------------------------------------------------------------------------
\* Properties of concurrent ingestion and removal (specification Spec)
\* ------------------------------------------------------------------------
Done(r) == req[r].pc = "done"

\* requests take the slots in the order they start: no request for r's owner was
\* in flight when r started, none started while r was in flight, none started since
Isolated(r) ==
    /\ ~req[r].overlap
    /\ \A x \in Slots : x > r => req[x].ownerId # req[r].ownerId

SourceIds(sources) == {sources[i].id : i \in 1..Len(sources)}

\* the file sources request r created
CreatedFiles(r) ==
    {i \in 1..Len(req[r].sources) :
        req[r].sources[i].id \in req[r].created /\ req[r].sources[i].type = "file"}

AppendSucceeded(r) ==
    Done(r) /\ req[r].kind = "ingest" /\ req[r].mode = "append" /\ req[r].result = "ok"

\* C1: when two append-mode ingestions for one owner both succeed, however their
\* steps interleave, and no other request addressed that owner, the persisted
\* record holds the sources both created and its fileCount is at least the number
\* of files of the two requests together
C1_NoLostUpdate ==
    \A r1, r2 \in Slots :
        ( /\ r1 < r2
          /\ AppendSucceeded(r1)
          /\ AppendSucceeded(r2)
          /\ req[r1].ownerId = req[r2].ownerId
          /\ \A x \in Slots \ {r1, r2} : req[x].ownerId # req[r1].ownerId )
        => LET file == manualFiles[req[r1].ownerId]
           IN /\ file # None
              /\ (req[r1].created \cup req[r2].created) \subseteq SourceIds(file[1].sources)
              /\ file[1].fileCount >=
                     Cardinality(CreatedFiles(r1)) + Cardinality(CreatedFiles(r2))

\* C2: at most one request per owner is between its read of the record and its
\* last write at any time
C2_PerOwnerSerialization ==
    \A r1, r2 \in Slots :
        (r1 # r2 /\ InFlight(req[r1]) /\ InFlight(req[r2]))
        => req[r1].ownerId # req[r2].ownerId

RebuildFailed(r) == Done(r) /\ req[r].result \in {"UpstreamError", "IoError"}

OwnerStateAsBefore(r) ==
    /\ manualFiles[req[r].ownerId] = req[r].preFile
    /\ documentsByConversation[req[r].ownerId] = req[r].preDocs

\* C3: after a request whose rebuild failed at any step (embedding, the vector
\* store write, the record write), the owner's record and vector documents are
\* what they were before the request
C3_AllOrNothing ==
    \A r \in Slots : (RebuildFailed(r) /\ Isolated(r)) => OwnerStateAsBefore(r)

\* C4: after a request whose embedding calls failed, the owner's record and
\* vector documents are what they were before the request: nothing was written
\* before the embeddings had succeeded
C4_EmbedFailureWritesNothing ==
    \A r \in Slots :
        (Done(r) /\ req[r].result = "UpstreamError" /\ Isolated(r))
        => OwnerStateAsBefore(r)

\* C4 witness: an embedding failure of a request for an owner that had a record
\* and documents
C4_Witness ==
    \E r \in Slots :
        /\ Done(r) /\ req[r].result = "UpstreamError" /\ Isolated(r)
        /\ req[r].preFile # None /\ req[r].preDocs # <<>>

C6_RecordExistence ==
    \A o \in Ids :
        (\A r \in Slots : ~(InFlight(req[r]) /\ req[r].ownerId = o))
        => /\ manualFiles[o] # None => manualFiles[o][1].sources # <<>>
           /\ manualFiles[o] = None => documentsByConversation[o] = <<>>

\* ------------------------------------------------------------------------
\* Specification: every controller, known and unknown ids, and retrieval
\* ------------------------------------------------------------------------
\* <<controller, id, user>>: the authenticated manual routes and the project routes
\* with either user, the guest routes with any id
AccessCallers ==
    {<<"manuals", id, Some(u)>> : id \in {"c1", "c3", "g1", ""}, u \in Users}
    \cup {<<"projects", id, Some(u)>> : id \in {"p1"}, u \in Users}
    \cup {<<"guest", id, None>> : id \in {"p1", "c1", "c3", "g1"}}

AccessPayloads == {Payload(<<FileA>>, None, Some("append"), Some(100))}

Queries == {Str("a", 2), Str(" ", 1)}

NextAccess ==
    \/ \E r \in Slots, c \in AccessCallers, p \in AccessPayloads :
           IngestStart(r, c[1], c[2], c[3], p)
    \/ \E r \in Slots, c \in AccessCallers, sourceId \in 0..(nextId - 1) :
           RemoveStart(r, c[1], c[2], c[3], sourceId)
    \/ \E r \in Slots, ok \in BOOLEAN : EmbedDone(r, ok)
    \/ \E r \in Slots, ok \in BOOLEAN : VecWriteDone(r, ok)
    \/ \E r \in Slots, ok \in BOOLEAN : RecOpenDone(r, ok)
    \/ \E r \in Slots, ok \in BOOLEAN : RecWriteDone(r, ok)
    \/ \E r \in Slots : UnlinkDone(r)
    \/ \E r \in Slots, ok \in BOOLEAN : ClearDone(r, ok)
    \/ \E id \in {"c1", "c2", "c3", "g1"}, user \in {None, Some("u1")}, query \in Queries :
           Respond(id, user, query)

SpecAccess == Init /\ [][NextAccess]_vars

\* the projects and the conversations of the database: the owners that belong to
\* a principal
ProtectedOwners == DOMAIN db.projects \cup DOMAIN db.conversations

\* C7: a step of an ingestion or removal request that came without a principal
\* never changes the record or the vector documents of a project or of a
\* conversation that belongs to a principal
C7_UnauthenticatedMutatesOnlyGuests ==
    [][\A r \in Slots :
          (req[r].kind # "" /\ req[r].user = None /\ req'[r].pc # req[r].pc)
          => \A o \in ProtectedOwners :
                 /\ manualFiles'[o] = manualFiles[o]
                 /\ documentsByConversation'[o] = documentsByConversation[o]]_vars

\* the contents of the documents a query for the owner of the conversation finds
OwnerContext(conversationId, query) ==
    LET owner == resolveOwnerFromConversation(db, conversationId, None)
        docs == queryByEmbedding(documentsByConversation, owner.ownerId, embed(query),
                                 DefaultTopK)
    IN [i \in 1..Len(docs) |-> docs[i].content]

\* C8: a retrieval that succeeds for a conversation returns the best chunks among
\* the vector documents stored for the owner the conversation resolves to (the
\* project, for every conversation of a project)
C8_RetrievalUsesResolvedOwner ==
    [][(retrieved' # retrieved /\ retrieved'[1].result = "ok")
       => retrieved'[1].context =
              OwnerContext(retrieved'[1].conversationId, retrieved'[1].query)]_vars

\* ------------------------------------------------------------------------
\* Properties of the chunker (specification SpecChunk)
\* ------------------------------------------------------------------------
\* C9: every iteration of the chunker's loop moves the offset forward by at least
\* 1, for every window size and overlap, so the loop terminates
C9_ChunkerAdvances == [][ck'.iter # ck.iter => ck'.start >= ck.start + 1]_vars

ShortText ==
    /\ ck.pc = "done"
    /\ ck.chunkSize = DefaultChunkSize
    /\ ck.overlap = DefaultOverlap
    /\ TLen(ck.text) < DefaultChunkSize
    /\ TTrim(ck.text) # <<>>

\* C10 as claimed: a text shorter than the window (800) that is non-empty after
\* trimming yields exactly one chunk, trim(text)
C10_ShortTextOneChunk == ShortText => ck.chunks = <<TTrim(ck.text)>>

\* C10 amended: a text shorter than the window (800) that is non-empty after
\* trimming yields trim(text) as its first chunk; it is the only chunk when the
\* text from offset 700 (window - overlap) on is empty or blank, and otherwise the
\* trimmed text from offset 700 on follows as a second chunk
C10_ShortTextChunks ==
    ShortText =>
        LET rest == TTrim(TSlice(ck.text, DefaultChunkSize - DefaultOverlap,
                                 TLen(ck.text)))
        IN ck.chunks = IF rest = <<>> THEN <<TTrim(ck.text)>>
                       ELSE <<TTrim(ck.text), rest>>

\* C10 witness: a text of 701 to 799 characters was chunked in two chunks
C10_Witness ==
    /\ ShortText
    /\ TLen(ck.text) > DefaultChunkSize - DefaultOverlap
    /\ Len(ck.chunks) = 2
    /\ ck.chunks[1] = TTrim(ck.text)

\* ------------------------------------------------------------------------
\* Specification: status queries, records of several chunks, and a record
\* stored without sources (written before sources were tracked)
\* ------------------------------------------------------------------------
\* a record file of the stored fields manualText and the three counts
LegacyRecord(manualText, fileCount) ==
    [manualText |-> manualText,
     chunkCount |-> Len(chunkText(manualText, DefaultChunkSize, DefaultOverlap)),
     embeddedChunks |-> Len(chunkText(manualText, DefaultChunkSize, DefaultOverlap)),
     fileCount |-> fileCount]

\* "=== A ===\naa\n\n=== prompt.txt ===\nbb": the texts of two uploaded files
LegacyTwoFiles ==
    LegacyRecord(
        FromChars(<<"=", "=", "=", " ", "A", " ", "=", "=", "=", "\n", "a", "a",
                    "\n", "\n", "=", "=", "=", " ", "p", "r", "o", "m", "p", "t",
                    ".", "t", "x", "t", " ", "=", "=", "=", "\n", "b", "b">>), 2)

\* "ab ab": a text without headers
LegacyNoHeader == LegacyRecord(FromChars(<<"a", "b", " ", "a", "b">>), 0)

LegacyRecords == {LegacyTwoFiles, LegacyNoHeader}

\* the documents stored with a record whose chunks were all embedded
DocumentsOf(manualText) ==
    LET chunks == chunkText(manualText, DefaultChunkSize, DefaultOverlap)
    IN MakeDocuments(chunks, [i \in 1..Len(chunks) |-> embed(chunks[i])])

\* project p1 has no record, or one of the records without sources
InitStatus ==
    /\ db = DbInit
    /\ \E stored \in {None} \cup {Some(l) : l \in LegacyRecords} :
          /\ manualFiles = [o \in Ids |-> IF o = "p1" THEN stored ELSE None]
          /\ documentsByConversation =
                [o \in Ids |-> IF o = "p1" /\ stored # None
                               THEN DocumentsOf(stored[1].manualText) ELSE <<>>]
    /\ manualsTable = [o \in Ids |-> None]
    /\ req = [r \in Slots |-> ReqIdle]
    /\ nextId = 1
    /\ vectorFile = Loaded(documentsByConversation)
    /\ retrieved = None
    /\ statusReply = None
    /\ ck = ckIdle

\* a file of 1490 letters: with its header the manual text has 1500 characters
FileLong == [label |-> FromChars(<<"L">>), text |-> Str("a", 1490)]

\* a long file appended with ratio 0.34; two short files replacing with ratio
\* 0.1; an instruction with ratio 1.5, mode omitted; a blank file and a blank
\* instruction, appended and replacing
StatusPayloads ==
    {Payload(<<FileLong>>, None, Some("append"), Some(34)),
     Payload(<<FileB, FileA>>, None, Some("replace"), Some(10)),
     Payload(<<>>, Some(Str("b", 2)), None, Some(150)),
     Payload(<<FileBlank>>, Some(Str(" ", 1)), Some("append"), Some(100)),
     Payload(<<FileBlank>>, Some(Str(" ", 1)), Some("replace"), Some(100))}

StatusCallers == {<<"projects", "p1", Some("u1")>>}

\* no ingestion or removal request is being served
Quiet == \A r \in Slots : ~InFlight(req[r])

\* ingestion and removal requests arrive one at a time, each after the response
\* to the one before; status queries arrive at any time; the embedding service
\* and the file system do not fail
NextStatus ==
    \/ \E r \in Slots, c \in StatusCallers, p \in StatusPayloads :
           Quiet /\ IngestStart(r, c[1], c[2], c[3], p)
    \/ \E r \in Slots, c \in StatusCallers, sourceId \in 1..(nextId - 1) :
           Quiet /\ RemoveStart(r, c[1], c[2], c[3], sourceId)
    \/ \E r \in Slots, ok \in {TRUE} : EmbedDone(r, ok)
    \/ \E r \in Slots, ok \in {TRUE} : VecWriteDone(r, ok)
    \/ \E r \in Slots, ok \in {TRUE} : RecOpenDone(r, ok)
    \/ \E r \in Slots, ok \in {TRUE} : RecWriteDone(r, ok)
    \/ \E r \in Slots : UnlinkDone(r)
    \/ \E r \in Slots, ok \in {TRUE} : ClearDone(r, ok)
    \/ \E c \in StatusCallers : Status(c[1], c[2], c[3])

SpecStatus == InitStatus /\ [][NextStatus]_vars

\* the requests that are inside rebuildFromSources for owner o
Rebuilding(o) ==
    {r \in Slots : req[r].ownerId = o
                   /\ req[r].pc \in {"embedding", "vecwrite", "recopen", "recwrite"}}

\* C11: a status query for an owner, answered while a rebuild for that owner is
\* in progress, returns the summary of the last completed rebuild: when the
\* only request for the owner that has finished is a successful ingestion and
\* every other request for the owner is still inside its rebuild, the answer is
\* hasManual = true with the summary that ingestion returned
C11_StatusSeesCompleted ==
    [][(statusReply' # statusReply /\ statusReply'[1].result = "ok")
       => LET o == statusReply'[1].ownerId
              finished == {r \in Slots : Done(r) /\ req[r].ownerId = o}
              others == {r \in Slots : req[r].ownerId = o} \ finished
          IN ( /\ Rebuilding(o) # {}
               /\ others \subseteq Rebuilding(o)
               /\ Cardinality(finished) = 1
               /\ \A r \in finished : req[r].kind = "ingest" /\ req[r].result = "ok" )
             => /\ statusReply'[1].hasManual = TRUE
                /\ \A r \in finished : statusReply'[1].stats = req[r].stats]_vars

\* ------------------------------------------------------------------------
\* Properties of single requests and of status queries (specification
\* SpecStatus)
\* ------------------------------------------------------------------------
\* the sources a record file stores: none when there is no file, when the file
\* cannot be read and when the record was stored without sources
StoredSources(file) ==
    IF file = None THEN <<>>
    ELSE IF "sources" \notin DOMAIN file[1] THEN <<>>
    ELSE file[1].sources

\* the file holds a record with its sources, or there is no file
Tracked(file) == file = None \/ "sources" \in DOMAIN file[1]

IngestSucceeded(r) ==
    Done(r) /\ req[r].kind = "ingest" /\ req[r].result = "ok" /\ Isolated(r)

\* C12: after a successful ingestion that did not ask for replace (append, or no
\* mode given) the sources of the record are the sources stored before, in their
\* order and with their ids, followed by the sources the request created; after
\* a successful replace they are the created sources only
C12_MergeSemantics ==
    \A r \in Slots :
        (IngestSucceeded(r) /\ Tracked(req[r].preFile))
        => LET sources == StoredSources(manualFiles[req[r].ownerId])
               previous == IF req[r].given = Some("replace") THEN <<>>
                           ELSE StoredSources(req[r].preFile)
           IN /\ Len(sources) = Len(previous) + Cardinality(req[r].created)
              /\ SubSeq(sources, 1, Len(previous)) = previous
              /\ \A i \in (Len(previous) + 1)..Len(sources) :
                     sources[i].id \in req[r].created
              /\ \A i, j \in (Len(previous) + 1)..Len(sources) :
                     i < j => sources[i].id < sources[j].id

\* C12 witness: an ingestion without a mode added a source to a record that had
\* sources
C12_Witness ==
    \E r \in Slots :
        /\ IngestSucceeded(r) /\ Tracked(req[r].preFile)
        /\ req[r].given = None
        /\ StoredSources(req[r].preFile) # <<>>
        /\ req[r].created # {}
        /\ Len(StoredSources(manualFiles[req[r].ownerId]))
               = Len(StoredSources(req[r].preFile)) + 1

\* the ingestion r had nothing to persist: it created no source, and it asked
\* for replace or found no record to append to
NothingToPersist(r) ==
    /\ req[r].kind = "ingest"
    /\ req[r].pc # "idle"
    /\ req[r].ownerId # ""
    /\ req[r].created = {}
    /\ \/ req[r].given = Some("replace")
       \/ req[r].preFile = None

\* C13: an ingestion whose merged source list is empty (no file with text, no
\* instruction with text, and replace mode or no record to append to) fails with
\* BadRequest, and the owner's record and vector documents are as before
C13_EmptyMergeRejected ==
    \A r \in Slots :
        NothingToPersist(r)
        => /\ Done(r)
           /\ req[r].result = "BadRequest"
           /\ Isolated(r) => OwnerStateAsBefore(r)

\* C13 witness: a replace without usable input was rejected for an owner that
\* has a record with sources and vector documents
C13_Witness ==
    \E r \in Slots :
        /\ NothingToPersist(r) /\ Done(r) /\ Isolated(r)
        /\ req[r].given = Some("replace")
        /\ req[r].result = "BadRequest"
        /\ StoredSources(req[r].preFile) # <<>>
        /\ req[r].preDocs # <<>>
        /\ OwnerStateAsBefore(r)

\* the removal r names a source id that the stored record does not hold (there
\* may be no record)
UnknownSource(r) ==
    /\ req[r].kind = "remove"
    /\ req[r].pc # "idle"
    /\ req[r].ownerId # ""
    /\ req[r].sourceId \notin SourceIds(StoredSources(req[r].preFile))

RemovedOneOfSeveral(r) ==
    /\ Done(r) /\ req[r].kind = "remove" /\ req[r].result = "ok" /\ Isolated(r)
    /\ Len(StoredSources(req[r].preFile)) >= 2
    /\ req[r].sourceId \in SourceIds(StoredSources(req[r].preFile))

\* C15: after the removal of one of several sources the record holds the
\* sources stored before without that one, in their order; its manualText is the
\* flattening of these sources; its embedRatio is the one stored before
C15_RemoveOneOfSeveral ==
    \A r \in Slots :
        RemovedOneOfSeveral(r)
        => LET before == req[r].preFile[1]
               file == manualFiles[req[r].ownerId]
               remaining == SelectSeq(before.sources,
                                      LAMBDA source : source.id # req[r].sourceId)
           IN /\ req[r].hasManual = TRUE
              /\ file # None
              /\ StoredSources(file) = remaining
              /\ Len(remaining) = Len(before.sources) - 1
              /\ file[1].manualText = flattenSources(remaining)
              /\ file[1].embedRatio = before.embedRatio

\* C15 witness: the first of two sources, stored with a ratio below 1, was
\* removed
C15_Witness ==
    \E r \in Slots :
        /\ RemovedOneOfSeveral(r)
        /\ req[r].preFile[1].sources[1].id = req[r].sourceId
        /\ req[r].preFile[1].embedRatio < 100
        /\ Len(StoredSources(manualFiles[req[r].ownerId])) = 1

\* "=== label ===\n" followed by the trimmed text
Rendered(source) ==
    TCat(FromChars(<<"=", "=", "=", " ">>),
         TCat(source.label,
              TCat(FromChars(<<" ", "=", "=", "=", "\n">>), TTrim(source.text))))

\* the rendered sources joined by a blank line
RECURSIVE RenderedAll(_)
RenderedAll(sources) ==
    IF Len(sources) = 1 THEN Rendered(sources[1])
    ELSE TCat(Rendered(sources[1]),
              TCat(FromChars(<<"\n", "\n">>), RenderedAll(Tail(sources))))

ReturnedStats ==
    {req[r].stats[1] : r \in {x \in Slots : Done(x) /\ req[x].stats # None}}
    \cup (IF statusReply # None /\ statusReply[1].stats # None
          THEN {statusReply[1].stats[1]} ELSE {})

\* n * ratio / 100 rounded to the nearest integer, halves upwards
Rounded(n, ratio) ==
    CHOOSE e \in 0..n : 100 * (2 * e - 1) <= 2 * n * ratio /\ 2 * n * ratio < 100 * (2 * e + 1)

\* the ratio a request asks for, brought into [0.2, 1]; 1 when it gives none
Clamped(given) ==
    IF given = None THEN 100
    ELSE IF given[1] < 20 THEN 20
    ELSE IF given[1] > 100 THEN 100
    ELSE given[1]

C18_FileCountCountsFiles ==
    \A s \in ReturnedStats :
        s.fileCount = Cardinality({i \in DOMAIN s.sources : s.sources[i].type = "file"})

\* ------------------------------------------------------------------------
\* Specification: requests and status queries through the conversation routes
\* ------------------------------------------------------------------------
\* <<controller, id, user>>: both users and a caller without principal, with a
\* conversation of project p1 (of u1), a conversation of u2 without project, and
\* an id that is not in the database
ResolveCallers ==
    {<<"manuals", id, Some(u)>> : id \in {"c1", "c3", "g1"}, u \in Users}
    \cup {<<"guest", id, None>> : id \in {"c1", "c3", "g1"}}

\* requests arrive one at a time; nothing fails
NextResolve ==
    \/ \E r \in Slots, c \in ResolveCallers, p \in AccessPayloads :
           Quiet /\ IngestStart(r, c[1], c[2], c[3], p)
    \/ \E r \in Slots, c \in ResolveCallers, sourceId \in 1..(nextId - 1) :
           Quiet /\ RemoveStart(r, c[1], c[2], c[3], sourceId)
    \/ \E r \in Slots, ok \in {TRUE} : EmbedDone(r, ok)
    \/ \E r \in Slots, ok \in {TRUE} : VecWriteDone(r, ok)
    \/ \E r \in Slots, ok \in {TRUE} : RecOpenDone(r, ok)
    \/ \E r \in Slots, ok \in {TRUE} : RecWriteDone(r, ok)
    \/ \E r \in Slots : UnlinkDone(r)
    \/ \E r \in Slots, ok \in {TRUE} : ClearDone(r, ok)
    \/ \E c \in ResolveCallers : Status(c[1], c[2], c[3])

SpecResolve == Init /\ [][NextResolve]_vars

\* what the owner resolver answered to the requests and to the status query on
\* record: the ingestions of both conversation controllers, the removals and
\* the status queries of the authenticated one
Resolutions ==
    {[arg |-> req[r].arg, user |-> req[r].user,
      error |-> IF req[r].ownerId # "" THEN "" ELSE req[r].result,
      ownerId |-> req[r].ownerId, ownerType |-> req[r].ownerType] :
        r \in {x \in Slots : /\ req[x].kind # ""
                             /\ \/ req[x].entry = "manuals"
                                \/ req[x].entry = "guest" /\ req[x].kind = "ingest"}}
    \cup (IF statusReply # None /\ statusReply[1].entry = "manuals"
          THEN {[arg |-> statusReply[1].arg, user |-> statusReply[1].user,
                 error |-> IF statusReply[1].result = "ok" THEN ""
                           ELSE statusReply[1].result,
                 ownerId |-> statusReply[1].ownerId,
                 ownerType |-> statusReply[1].ownerType]}
          ELSE {})

Known(id) == id \in DOMAIN db.conversations

\* the principal that owns the owner of a known conversation: the user of its
\* project, or of the conversation when it has no project
Principal(id) ==
    IF db.conversations[id].project_id # None
    THEN db.projects[db.conversations[id].project_id[1]].user_id
    ELSE db.conversations[id].user_id

Refused(x) == Known(x.arg) /\ x.user # None /\ x.user # Some(Principal(x.arg))

\* C19: the owner resolver answers (projectId, project) for a known conversation
\* of a project, (conversationId, conversation) for a known conversation without
\* project, (identifier, guest) for an unknown identifier without principal,
\* NotFound for an unknown identifier with a principal, and Forbidden for a
\* known conversation whose owner's principal is not the caller
C19_OwnerResolver ==
    \A x \in Resolutions :
        /\ (Known(x.arg) /\ ~Refused(x) /\ db.conversations[x.arg].project_id # None)
           => /\ x.error = ""
              /\ x.ownerId = db.conversations[x.arg].project_id[1]
              /\ x.ownerType = "project"
        /\ (Known(x.arg) /\ ~Refused(x) /\ db.conversations[x.arg].project_id = None)
           => /\ x.error = ""
              /\ x.ownerId = x.arg
              /\ x.ownerType = "conversation"
        /\ (~Known(x.arg) /\ x.user = None)
           => /\ x.error = ""
              /\ x.ownerId = x.arg
              /\ x.ownerType = "guest"
        /\ (~Known(x.arg) /\ x.user # None)
           => /\ x.error = "NotFound"
              /\ x.ownerId = ""
        /\ Refused(x)
           => /\ x.error = "Forbidden"
              /\ x.ownerId = ""

\* C19 witness: a request of u2 for conversation c1 of u1's project was refused,
\* a request without principal for the unknown g1 went to the guest owner g1,
\* and a status query of u1 for c1 went to project p1
C19_Witness ==
    /\ \E r \in Slots :
          /\ req[r].entry = "manuals" /\ req[r].arg = "c1" /\ req[r].user = Some("u2")
          /\ Done(r) /\ req[r].result = "Forbidden"
    /\ \E r \in Slots :
          /\ req[r].entry = "guest" /\ req[r].arg = "g1" /\ req[r].kind = "ingest"
          /\ req[r].ownerId = "g1" /\ req[r].ownerType = "guest"
    /\ statusReply # None
    /\ statusReply[1].entry = "manuals"
    /\ statusReply[1].arg = "c1"
    /\ statusReply[1].user = Some("u1")
    /\ statusReply[1].ownerId = "p1"
    /\ statusReply[1].ownerType = "project"

\* ------------------------------------------------------------------------
\* The record and the vector documents of an owner at rest (specification Spec)
\* ------------------------------------------------------------------------
AtRest(o) == \A r \in Slots : ~(InFlight(req[r]) /\ req[r].ownerId = o)

NoRebuildFailed(o) == \A r \in Slots : req[r].ownerId = o => ~RebuildFailed(r)

\* C20: whenever no request for an owner is in progress, also after requests
\* whose steps interleaved and none of which failed, the contents of the owner's
\* vector documents are, in order, the first embeddedChunks chunks of the
\* chunking of the manualText of its persisted record
C20_RecordVectorConsistency ==
    \A o \in Ids :
        (AtRest(o) /\ NoRebuildFailed(o) /\ StoredSources(manualFiles[o]) # <<>>)
        => LET record == manualFiles[o][1]
               chunks == chunkText(record.manualText, DefaultChunkSize, DefaultOverlap)
               documents == documentsByConversation[o]
           IN /\ record.embeddedChunks <= Len(chunks)
              /\ [i \in 1..Len(documents) |-> documents[i].content]
                     = SubSeq(chunks, 1, record.embeddedChunks)

\* ------------------------------------------------------------------------
\* Specification: queryByEmbedding on stores and query embeddings of any shape
\* ------------------------------------------------------------------------
MaxDocs == 4

\* documents of three dimensions, one with a zero vector, one whose embedding
\* has another dimension
DocPool ==
    {[content |-> Str("a", 1), embedding |-> <<3, 0, 1>>],
     [content |-> Str("b", 1), embedding |-> <<0, 2, 1>>],
     [content |-> Str("a", 2), embedding |-> <<0, 0, 0>>],
     [content |-> Str("b", 2), embedding |-> <<1, 1>>]}

RECURSIVE SeqsUpTo(_, _)
SeqsUpTo(S, n) ==
    IF n = 0 THEN {<<>>}
    ELSE SeqsUpTo(S, n - 1)
         \cup {Append(s, x) : s \in {t \in SeqsUpTo(S, n - 1) : Len(t) = n - 1}, x \in S}

\* a document of another owner, which no query for p1 may return
ForeignDocument == [content |-> Str("a", 5), embedding |-> <<1, 0, 1>>]

\* owner p1 holds any sequence of up to MaxDocs documents, owner g1 one document
InitQuery ==
    /\ db = DbInit
    /\ manualFiles = [o \in Ids |-> None]
    /\ \E documents \in SeqsUpTo(DocPool, MaxDocs) :
          documentsByConversation =
              [o \in Ids |-> IF o = "p1" THEN documents
                             ELSE IF o = "g1" THEN <<ForeignDocument>> ELSE <<>>]
    /\ manualsTable = [o \in Ids |-> None]
    /\ req = [r \in Slots |-> ReqIdle]
    /\ nextId = 1
    /\ vectorFile = Loaded(documentsByConversation)
    /\ retrieved = None
    /\ statusReply = None
    /\ ck = ckIdle

\* the empty embedding of a blank query, embeddings of three dimensions, and
\* one of two
QueryEmbeddings == {<<>>, <<1, 0, 1>>, <<0, 1, 1>>, <<1, 1, 0>>, <<1, 2>>}

\* queryByEmbedding(conversationId, queryEmbedding, topK): the call and what it
\* returned
Query(conversationId, queryEmbedding, topK) ==
    /\ retrieved' = Some([conversationId |-> conversationId,
                          queryEmbedding |-> queryEmbedding,
                          topK |-> topK,
                          docs |-> queryByEmbedding(documentsByConversation,
                                                    conversationId, queryEmbedding, topK)])
    /\ UNCHANGED <<statusReply, db, manualFiles, documentsByConversation, manualsTable,
                   req, nextId, ck, vectorFile>>

NextQuery ==
    \E conversationId \in {"p1", "c1"}, queryEmbedding \in QueryEmbeddings,
       topK \in {1, DefaultTopK} :
        Query(conversationId, queryEmbedding, topK)

SpecQuery == InitQuery /\ [][NextQuery]_vars

\* cos(q, a) >= cos(q, b)
AtLeastAsSimilar(q, a, b) ==
    ~ScoreGreater(cosineSimilarity(q, b.embedding), cosineSimilarity(q, a.embedding))

\* C21: a query with a non-empty embedding for an owner with n documents
\* returns min(topK, n) documents, each a document of that owner (no stored
\* document twice), in the order of non-increasing cosine similarity to the
\* query, and none of the documents left out is more similar than one returned;
\* with no documents or an empty embedding it returns the empty list
C21_VectorQuery ==
    retrieved # None
    => LET x == retrieved[1]
           documents == documentsByConversation[x.conversationId]
           n == Len(documents)
           k == Len(x.docs)
       IN IF x.queryEmbedding = <<>> \/ n = 0 THEN x.docs = <<>>
          ELSE /\ k = (IF x.topK < n THEN x.topK ELSE n)
               /\ \E f \in [1..k -> 1..n] :
                     /\ \A i, j \in 1..k : i # j => f[i] # f[j]
                     /\ \A i \in 1..k : x.docs[i] = documents[f[i]]
                     /\ \A i \in 1..k : \A m \in (1..n) \ {f[j] : j \in 1..k} :
                            AtLeastAsSimilar(x.queryEmbedding, x.docs[i], documents[m])
               /\ \A i, j \in 1..k :
                     i < j => AtLeastAsSimilar(x.queryEmbedding, x.docs[i], x.docs[j])

\* C21 witness: a query over four documents returned three of them, the first
\* more similar to the query than the last
C21_Witness ==
    /\ retrieved # None
    /\ Len(documentsByConversation[retrieved[1].conversationId]) = MaxDocs
    /\ retrieved[1].topK = DefaultTopK
    /\ Len(retrieved[1].docs) = DefaultTopK
    /\ ~AtLeastAsSimilar(retrieved[1].queryEmbedding, retrieved[1].docs[DefaultTopK],
                         retrieved[1].docs[1])

\* ------------------------------------------------------------------------
\* Specification: records stored without sources, of several shapes
\* ------------------------------------------------------------------------
\* "===  B  === \na\nb\n=== A ===\nbb ": padded headers, a text of two lines
LegacyPadded ==
    LegacyRecord(
        FromChars(<<"=", "=", "=", " ", " ", "B", " ", " ", "=", "=", "=", " ", "\n",
                    "a", "\n", "b", "\n",
                    "=", "=", "=", " ", "A", " ", "=", "=", "=", "\n", "b", "b", " ">>), 2)

\* "ab\n=== A ===\naa\n=== B ===\nb": text before the first header
LegacyPreamble ==
    LegacyRecord(
        FromChars(<<"a", "b", "\n",
                    "=", "=", "=", " ", "A", " ", "=", "=", "=", "\n", "a", "a", "\n",
                    "=", "=", "=", " ", "B", " ", "=", "=", "=", "\n", "b">>), 2)

\* "== a ==\nb =": equals signs, but no line of the form === label ===
LegacyTwoEquals ==
    LegacyRecord(
        FromChars(<<"=", "=", " ", "a", " ", "=", "=", "\n", "b", " ", "=">>), 0)

\* "===\nA\n===\nbb": a title between two rules of three equals signs
LegacyRuled ==
    LegacyRecord(
        FromChars(<<"=", "=", "=", "\n", "A", "\n", "=", "=", "=", "\n", "b", "b">>), 0)

LegacyShapes ==
    {LegacyTwoFiles, LegacyPadded, LegacyPreamble, LegacyNoHeader, LegacyTwoEquals,
     LegacyRuled}

\* project p1 has one of the records without sources, and its documents
InitLegacy ==
    /\ db = DbInit
    /\ \E stored \in LegacyShapes :
          /\ manualFiles = [o \in Ids |-> IF o = "p1" THEN Some(stored) ELSE None]
          /\ documentsByConversation =
                [o \in Ids |-> IF o = "p1" THEN DocumentsOf(stored.manualText) ELSE <<>>]
    /\ manualsTable = [o \in Ids |-> None]
    /\ req = [r \in Slots |-> ReqIdle]
    /\ nextId = 1
    /\ vectorFile = Loaded(documentsByConversation)
    /\ retrieved = None
    /\ statusReply = None
    /\ ck = ckIdle

\* the requests of SpecStatus, from these records
SpecLegacy == InitLegacy /\ [][NextStatus]_vars

\* the lines of a text of characters cs: p is the offset of the first character
\* of a line (from 1), LineEnd the offset of its last character (p - 1 for an
\* empty line), LastInk the offset of its last character that is not a space
LineStarts(cs) == {p \in 1..Len(cs) : p = 1 \/ cs[p - 1] = "\n"}

LineEnd(cs, p) ==
    CHOOSE e \in (p - 1)..Len(cs) :
        /\ e = Len(cs) \/ cs[e + 1] = "\n"
        /\ \A k \in p..e : cs[k] # "\n"

LastInk(cs, p) ==
    CHOOSE t \in (p - 1)..LineEnd(cs, p) :
        /\ t >= p => cs[t] # " "
        /\ \A k \in (t + 1)..LineEnd(cs, p) : cs[k] = " "

\* the line at p is a header line: === label === with a label that is not blank,
\* spaces allowed around the label and after the closing ===
IsHeaderLine(cs, p) ==
    /\ LastInk(cs, p) - p + 1 >= 7
    /\ \A k \in 0..2 : cs[p + k] = "=" /\ cs[LastInk(cs, p) - k] = "="
    /\ \E k \in (p + 3)..(LastInk(cs, p) - 3) : cs[k] # " "

HeaderLines(cs) == {p \in LineStarts(cs) : IsHeaderLine(cs, p)}

\* the label of the header line at p
HeaderLabel(cs, p) == TTrim(FromChars(SubSeq(cs, p + 3, LastInk(cs, p) - 3)))

\* the text from the end of the header line at p to the next header line (or to
\* the end of the text), without the white space around it
TextAfterHeader(cs, p) ==
    LET later == {q \in HeaderLines(cs) : q > p}
        stop == IF later = {} THEN Len(cs)
                ELSE (CHOOSE q \in later : \A x \in later : q <= x) - 1
    IN TTrim(FromChars(SubSeq(cs, LineEnd(cs, p) + 1, stop)))

\* the sources that a request read from a record stored without sources: what
\* its append-mode ingestion persisted in front of the sources it created
ReadFromLegacy(r) ==
    SubSeq(StoredSources(manualFiles[req[r].ownerId]), 1,
           Len(StoredSources(manualFiles[req[r].ownerId])) - Cardinality(req[r].created))

AppendedToLegacy(r) ==
    /\ IngestSucceeded(r)
    /\ req[r].mode = "append"
    /\ req[r].preFile # None
    /\ ~Tracked(req[r].preFile)

\* C22: the sources read from a record stored without sources: when its
\* manualText has two header lines, each followed by text that is not blank, two
\* sources with the labels of the headers and the texts after them, in order;
\* when it has no header line, one instruction source with the whole manualText
C22_LegacyReconstruction ==
    \A r \in Slots :
        AppendedToLegacy(r)
        => LET cs == Chars(req[r].preFile[1].manualText)
               headers == HeaderLines(cs)
               sources == ReadFromLegacy(r)
           IN /\ ( /\ Cardinality(headers) = 2
                   /\ \A p \in headers : TextAfterHeader(cs, p) # <<>> )
                 => /\ Len(sources) = 2
                    /\ \E p, q \in headers :
                          /\ p < q
                          /\ sources[1].label = HeaderLabel(cs, p)
                          /\ sources[1].text = TextAfterHeader(cs, p)
                          /\ sources[2].label = HeaderLabel(cs, q)
                          /\ sources[2].text = TextAfterHeader(cs, q)
              /\ headers = {}
                 => /\ Len(sources) = 1
                    /\ sources[1].type = "instruction"
                    /\ sources[1].text = req[r].preFile[1].manualText

\* ------------------------------------------------------------------------
\* Two ingestions of the same content, one after the other
\* ------------------------------------------------------------------------
\* type, label and text of the sources request r created, in their order
CreatedContent(r) ==
    LET idx == {i \in 1..Len(req[r].sources) : req[r].sources[i].id \in req[r].created}
        created == SelectSeq(req[r].sources, LAMBDA s : s.id \in req[r].created)
    IN [i \in 1..Cardinality(idx) |->
           [type |-> created[i].type, label |-> created[i].label,
            text |-> created[i].text]]

\* the sources request r read from the record it found
ExistingSourcesOf(r) == SelectSeq(req[r].sources, LAMBDA s : s.id \notin req[r].created)

\* requests 1 and 2 are successful append-mode ingestions of the same content
\* for one owner, the second started after the answer to the first
AppendedTwice ==
    /\ \A r \in {1, 2} : /\ Done(r) /\ req[r].kind = "ingest" /\ req[r].result = "ok"
                         /\ ~req[r].overlap
                         /\ req[r].mode = "append"
    /\ req[1].ownerId = req[2].ownerId
    /\ CreatedContent(1) = CreatedContent(2)

\* C23 as stated: the same files ingested twice in append mode: fileCount after
\* the second ingestion is twice fileCount after the first, and chunkCount is
\* not smaller
C23_AppendTwiceDoubles ==
    AppendedTwice
    => /\ req[2].stats[1].fileCount = 2 * req[1].stats[1].fileCount
       /\ req[2].stats[1].chunkCount >= req[1].stats[1].chunkCount

\* C23 amended: for an owner whose record had no file source when the first
\* ingestion read it (or who had no record), fileCount after the second
\* ingestion is twice fileCount after the first; for every owner fileCount grows
\* at the second ingestion by the number of file sources the content has, and
\* chunkCount is not smaller
C23_AppendTwice ==
    AppendedTwice
    => LET files == Cardinality({i \in 1..Len(CreatedContent(2)) :
                                    CreatedContent(2)[i].type = "file"})
       IN /\ req[2].stats[1].fileCount = req[1].stats[1].fileCount + files
          /\ (\A i \in 1..Len(ExistingSourcesOf(1)) :
                  ExistingSourcesOf(1)[i].type # "file")
             => req[2].stats[1].fileCount = 2 * req[1].stats[1].fileCount
          /\ req[2].stats[1].chunkCount >= req[1].stats[1].chunkCount

\* C23 witness: a file appended twice for an owner without record: one file and
\* then two, and more chunks
C23_Witness ==
    /\ AppendedTwice
    /\ req[1].preFile = None
    /\ req[1].stats[1].fileCount = 1
    /\ req[2].stats[1].fileCount = 2
    /\ req[2].stats[1].chunkCount > req[1].stats[1].chunkCount

\* ------------------------------------------------------------------------
\* Frame of a status query
\* ------------------------------------------------------------------------
\* a step of a status query: no request starts or advances, and an answer is
\* given or ids are drawn for the sources of a record stored without them
StatusStep == req' = req /\ (statusReply' # statusReply \/ nextId' # nextId)

\* C24: a status query changes nothing: the record files, the vector documents
\* and the metadata rows of all owners (and the projects and conversations) are
\* after it what they were before, also when the sources of the record it read
\* had to be reconstructed
C24_StatusChangesNothing ==
    [][StatusStep
       => UNCHANGED <<manualFiles, documentsByConversation, manualsTable, db, vectorFile>>]_vars

\* C24 witness: a status query has answered with the reconstructed sources of a
\* record that is still stored without sources
C24_Witness ==
    /\ statusReply # None
    /\ statusReply[1].result = "ok"
    /\ statusReply[1].hasManual
    /\ statusReply[1].stats[1].sources # <<>>
    /\ manualFiles[statusReply[1].ownerId] # None
    /\ ~Tracked(manualFiles[statusReply[1].ownerId])

\* ------------------------------------------------------------------------
\* Specification: deletion of a project (ProjectsController.remove) next to
\* ingestions for the project
\* ------------------------------------------------------------------------
\* ProjectsService.deleteProject after its getProjectOrThrow: the conversations
\* of the project (with their messages) and the project row are deleted
deleteProject(database, projectId) ==
    [projects |-> [p \in DOMAIN database.projects \ {projectId} |->
                      database.projects[p]],
     conversations |->
        [c \in {x \in DOMAIN database.conversations :
                   database.conversations[x].project_id # Some(projectId)} |->
            database.conversations[c]]]

\* a deletion that keeps the rows of the database
deleteProjectKept(database, projectId) == database

\* ProjectsController.remove up to the first await of deleteManual:
\* getProjectOrThrow, then deleteManualData(projectId) calls fs.unlink
DeleteStart(r, projectId, user) ==
    /\ FreeSlot(r)
    /\ LET q0 == [ReqIdle EXCEPT !.kind = "delete", !.entry = "projects",
                                 !.arg = projectId, !.user = Some(user)]
           q1 == [q0 EXCEPT !.ownerId = projectId, !.ownerType = "project",
                            !.preFile = manualFiles[projectId],
                            !.preDocs = documentsByConversation[projectId]]
       IN IF getProjectOrThrow(db, projectId, user) # ""
          THEN Admit(r, Rejected(q0, getProjectOrThrow(db, projectId, user)))
          ELSE Admit(r, [q1 EXCEPT !.pc = "delunlink"])
    /\ UNCHANGED <<statusReply, db, manualFiles, documentsByConversation, manualsTable,
                   nextId, retrieved, ck, vectorFile>>

\* deleteManual: fs.unlink settles, then clearDocuments empties the project's
\* documents and starts writing vector-store.json
DeleteUnlinkDone(r) ==
    /\ req[r].pc = "delunlink"
    /\ manualFiles' = Unlinked(manualFiles, req[r].ownerId)
    /\ documentsByConversation' = clearDocuments(documentsByConversation, req[r].ownerId)
    /\ vectorFile' = Persisting(vectorFile, r, documentsByConversation')
    /\ req' = [req EXCEPT ![r].pc = "delclear"]
    /\ UNCHANGED <<statusReply, db, manualsTable, nextId, retrieved, ck>>

\* the write of clearDocuments settles. When it fails the request fails;
\* otherwise deleteManual deletes the manuals row and deleteProject runs: it
\* throws when the project is gone, and deletes the conversations, the manuals
\* row and the project otherwise; the controller answers { success: true }
DeleteClearDone(r, ok) ==
    /\ req[r].pc = "delclear"
    /\ LET q == req[r]
           gone == getProjectOrThrow(db, q.arg, q.user[1])
       IN IF ~ok
          THEN /\ req' = [req EXCEPT ![r] = Rejected(q, "IoError")]
               /\ UNCHANGED <<db, manualsTable>>
          ELSE /\ manualsTable' = [manualsTable EXCEPT ![q.ownerId] = None]
               /\ IF gone # ""
                  THEN /\ req' = [req EXCEPT ![r] = Rejected(q, gone)]
                       /\ UNCHANGED db
                  ELSE /\ db' = deleteProject(db, q.arg)
                       /\ req' = [req EXCEPT ![r] = [q EXCEPT !.pc = "done",
                                                              !.result = "ok"]]
    /\ vectorFile' = Persisted(vectorFile, r, ok)
    /\ UNCHANGED <<statusReply, manualFiles, documentsByConversation, nextId, retrieved, ck>>

\* ingestions for project p1 by its owner and deletions of p1 by the two users,
\* at any time; the embedding service and the writes of ingestions do not fail
NextDelete ==
    \/ \E r \in Slots, p \in Payloads : IngestStart(r, "projects", "p1", Some("u1"), p)
    \/ \E r \in Slots, ok \in {TRUE} : EmbedDone(r, ok)
    \/ \E r \in Slots, ok \in {TRUE} : VecWriteDone(r, ok)
    \/ \E r \in Slots, ok \in {TRUE} : RecOpenDone(r, ok)
    \/ \E r \in Slots, ok \in {TRUE} : RecWriteDone(r, ok)
    \/ \E r \in Slots, user \in Users : DeleteStart(r, "p1", user)
    \/ \E r \in Slots : DeleteUnlinkDone(r)
    \/ \E r \in Slots, ok \in BOOLEAN : DeleteClearDone(r, ok)

SpecDelete == Init /\ [][NextDelete]_vars

\* request r is a project deletion that has answered { success: true }
Deleted(r) == Done(r) /\ req[r].kind = "delete" /\ req[r].result = "ok"

\* C25: after a project delete request has completed, the project does not
\* exist and there is no record file, no vector document and no metadata row for
\* the project id
C25_ProjectDeleteCascades ==
    \A r \in Slots :
        Deleted(r)
        => /\ req[r].arg \notin DOMAIN db.projects
           /\ manualFiles[req[r].arg] = None
           /\ documentsByConversation[req[r].arg] = <<>>
           /\ manualsTable[req[r].arg] = None

\* the same for a deletion that no other request for the project overlaps and
\* that no request for the project follows
DeleteAloneCascades ==
    \A r \in Slots :
        (Deleted(r) /\ Isolated(r))
        => /\ req[r].arg \notin DOMAIN db.projects
           /\ manualFiles[req[r].arg] = None
           /\ documentsByConversation[req[r].arg] = <<>>
           /\ manualsTable[req[r].arg] = None

\* a deletion alone has removed a record and its documents
DeleteAloneSeen ==
    \E r \in Slots :
        /\ Deleted(r) /\ Isolated(r)
        /\ req[r].preFile # None
        /\ req[r].preDocs # <<>>

\* ------------------------------------------------------------------------
\* Specification: uploads with files whose extracted text is blank
\* ------------------------------------------------------------------------
\* two files around a blank one, with an instruction; a blank file before a
\* file, replacing; a blank file alone; a blank file and a blank instruction,
\* replacing; a blank file and an instruction
SkipPayloads ==
    {Payload(<<FileB, FileBlank, FileA>>, Some(Str("b", 2)), Some("append"), Some(100)),
     Payload(<<FileBlank, FileA>>, Some(Str(" ", 1)), Some("replace"), Some(100)),
     Payload(<<FileBlank>>, None, Some("append"), Some(100)),
     Payload(<<FileBlank>>, Some(Str(" ", 1)), Some("replace"), Some(100)),
     Payload(<<FileBlank>>, Some(TCat(Str(" ", 1), Str("b", 2))), None, Some(100))}

\* the requests of SpecStatus with these uploads
NextSkip ==
    \/ \E r \in Slots, c \in StatusCallers, p \in SkipPayloads :
           Quiet /\ IngestStart(r, c[1], c[2], c[3], p)
    \/ \E r \in Slots, c \in StatusCallers, sourceId \in 1..(nextId - 1) :
           Quiet /\ RemoveStart(r, c[1], c[2], c[3], sourceId)
    \/ \E r \in Slots, ok \in {TRUE} : EmbedDone(r, ok)
    \/ \E r \in Slots, ok \in {TRUE} : VecWriteDone(r, ok)
    \/ \E r \in Slots, ok \in {TRUE} : RecOpenDone(r, ok)
    \/ \E r \in Slots, ok \in {TRUE} : RecWriteDone(r, ok)
    \/ \E r \in Slots : UnlinkDone(r)
    \/ \E r \in Slots, ok \in {TRUE} : ClearDone(r, ok)
    \/ \E c \in StatusCallers : Status(c[1], c[2], c[3])

SpecSkip == InitStatus /\ [][NextSkip]_vars

\* the text has no character that is not white space
Blank(text) == \A i \in 1..Len(Chars(text)) : IsWs(Chars(text)[i])

\* type, label and text of the sources an upload is to create: the files with
\* text in upload order, then the instruction when it has text
ExpectedContent(p) ==
    LET kept == SelectSeq(p.files, LAMBDA f : ~Blank(f.text))
        files == [i \in 1..Len(kept) |->
                     [type |-> "file", label |-> kept[i].label, text |-> kept[i].text]]
    IN IF p.instructionText # None /\ ~Blank(p.instructionText[1])
       THEN Append(files, [type |-> "instruction", label |-> UserPromptLabel,
                           text |-> TTrim(p.instructionText[1])])
       ELSE files

\* C26: a file whose extracted text is blank is skipped and does not fail the
\* ingestion: the request creates one file source per file with text, in upload
\* order, then one instruction source when the instruction has text; it is
\* accepted with these sources after the existing ones, and refused, with
\* BadRequest, exactly when nothing is created and there is nothing to append to
C26_BlankFilesSkipped ==
    [][\A r \in Slots, c \in StatusCallers, p \in SkipPayloads :
          IngestStart(r, c[1], c[2], c[3], p)
          => LET q == req'[r]
                 nothingBefore == p.mode = Some("replace") \/ manualFiles[q.ownerId] = None
             IN /\ Cardinality(q.created) = Len(ExpectedContent(p))
                /\ (q.result = "BadRequest")
                      <=> (ExpectedContent(p) = <<>> /\ nothingBefore)
                /\ q.result # "BadRequest"
                      => /\ q.pc = "embedding"
                         /\ Len(q.sources) >= Len(ExpectedContent(p))
                         /\ \A i \in 1..Len(ExpectedContent(p)) :
                               LET s == q.sources[Len(q.sources)
                                                  - Len(ExpectedContent(p)) + i]
                               IN /\ s.id \in q.created
                                  /\ s.type = ExpectedContent(p)[i].type
                                  /\ s.label = ExpectedContent(p)[i].label
                                  /\ s.text = ExpectedContent(p)[i].text]_vars

\* C26 witness: an upload of file B, a blank file and file A with an
\* instruction has been stored as the sources B, A and the instruction
C26_Witness ==
    \E r \in Slots :
        /\ IngestSucceeded(r)
        /\ Len(CreatedContent(r)) = 3
        /\ CreatedContent(r)[1].label = FileB.label
        /\ CreatedContent(r)[2].label = FileA.label
        /\ CreatedContent(r)[3].type = "instruction"
        /\ StoredSources(manualFiles[req[r].ownerId]) = req[r].sources

\* ------------------------------------------------------------------------
\* The windows of the chunker
\* ------------------------------------------------------------------------
\* the offsets 0, 700, 1400, ... below the length of the text
WindowOffsets(text) ==
    {k * (DefaultChunkSize - DefaultOverlap) :
        k \in 0..((TLen(text) - 1) \div (DefaultChunkSize - DefaultOverlap))}

\* the text of the window at an offset, trimmed
Window(text, offset) == TTrim(TSlice(text, offset, offset + DefaultChunkSize))

\* the offsets whose window is not blank
KeptWindows(text) == {o \in WindowOffsets(text) : Window(text, o) # <<>>}

CeilDiv(n, d) == (n + d - 1) \div d

\* the chunks are the kept windows, in the order of their offsets
IsWindowing(text, chunks) ==
    /\ Len(chunks) = Cardinality(KeptWindows(text))
    /\ \A i \in 1..Len(chunks) :
          \E o \in KeptWindows(text) :
              /\ Cardinality({x \in KeptWindows(text) : x < o}) = i - 1
              /\ chunks[i] = Window(text, o)
    /\ KeptWindows(text) = WindowOffsets(text)
       => Len(chunks) = CeilDiv(TLen(text), DefaultChunkSize - DefaultOverlap)

\* the chunker, run with its default window and overlap on texts with and
\* without blank windows, returns the windowing of its text (SpecChunk)
ChunkerWindows ==
    (ck.pc = "done" /\ ck.chunkSize = DefaultChunkSize /\ ck.overlap = DefaultOverlap)
    => IsWindowing(ck.text, ck.chunks)

\* a stored record that rebuildFromSources has written
Rebuilt(file) == file # None /\ "sources" \in DOMAIN file[1]

\* C27: the chunker takes the windows at offsets 0, 700, 1400, ... below the
\* length of the text and keeps those that are not blank: the chunkCount of a
\* stored record is the number of such windows of its manualText, which is
\* ceil(length / 700) when no window is blank; a manualText of length 1500 has
\* chunkCount 3, and with embedRatio 0.34 exactly 1 embedded chunk
C27_ChunkerWindows ==
    \A o \in Ids :
        Rebuilt(manualFiles[o])
        => LET rec == manualFiles[o][1]
           IN /\ IsWindowing(rec.manualText, chunkText(rec.manualText, DefaultChunkSize,
                                                       DefaultOverlap))
              /\ rec.chunkCount = Cardinality(KeptWindows(rec.manualText))
              /\ KeptWindows(rec.manualText) = WindowOffsets(rec.manualText)
                 => rec.chunkCount = CeilDiv(TLen(rec.manualText),
                                             DefaultChunkSize - DefaultOverlap)
              /\ TLen(rec.manualText) = 1500
                 => /\ rec.chunkCount = 3
                    /\ rec.embedRatio = 34 => rec.embeddedChunks = 1

\* C27 witness: a record with a manualText of 1500 characters, three chunks and
\* ratio 0.34 is stored
C27_Witness ==
    \E o \in Ids :
        /\ Rebuilt(manualFiles[o])
        /\ TLen(manualFiles[o][1].manualText) = 1500
        /\ manualFiles[o][1].chunkCount = 3
        /\ manualFiles[o][1].embedRatio = 34
        /\ manualFiles[o][1].embeddedChunks = 1

\* ------------------------------------------------------------------------
\* Owners next to each other (specification Spec)
\* ------------------------------------------------------------------------
\* the step is a step of request r: the request starts, advances or answers
StepOf(r) == req'[r] # req[r]

\* a step of an ingestion or removal for one owner changes neither the record
\* file nor the vector documents of any other owner, in memory and in
\* vector-store.json, whatever requests for the other owners are in progress
OwnersApartOnDisk ==
    [][\A r \in Slots :
          StepOf(r)
          => \A o \in Ids \ {req'[r].ownerId} :
                /\ manualFiles'[o] = manualFiles[o]
                /\ documentsByConversation'[o] = documentsByConversation[o]
                /\ vectorFile'.data[o] = vectorFile.data[o]]_vars

\* the same for the record files and the documents in memory only
OwnersApartInMemory ==
    [][\A r \in Slots :
          StepOf(r)
          => \A o \in Ids \ {req'[r].ownerId} :
                /\ manualFiles'[o] = manualFiles[o]
                /\ documentsByConversation'[o] = documentsByConversation[o]]_vars

\* every request is a successful ingestion that has answered, each for an owner
\* of its own
OneIngestionPerOwner ==
    /\ \A r \in Slots : Done(r) /\ req[r].kind = "ingest" /\ req[r].result = "ok"
    /\ \A r, x \in Slots : r # x => req[r].ownerId # req[x].ownerId

\* the documents an ingestion alone leaves for its owner
DocumentsAlone(r) ==
    LET plan == RebuildPlan(req[r].ownerId, req[r].ownerType, req[r].sources,
                            req[r].embedRatio)
    IN MakeDocuments(plan.targetChunks,
                     [i \in 1..Len(plan.targetChunks) |-> embed(plan.targetChunks[i])])

\* C28: requests for different owners do not affect each other: after
\* ingestions for different owners, at any interleaving of their steps, each
\* owner has the record and the vector documents, in memory and in
\* vector-store.json, that its ingestion alone would have left
C28_OwnerIsolation ==
    OneIngestionPerOwner
    => \A r \in Slots :
          /\ manualFiles[req[r].ownerId]
                = Some(RebuildPlan(req[r].ownerId, req[r].ownerType, req[r].sources,
                                   req[r].embedRatio).record)
          /\ documentsByConversation[req[r].ownerId] = DocumentsAlone(r)
          /\ vectorFile.data[req[r].ownerId] = DocumentsAlone(r)

\* the same without vector-store.json: the record files and the documents in
\* memory
OwnersAloneInMemory ==
    OneIngestionPerOwner
    => \A r \in Slots :
          /\ manualFiles[req[r].ownerId]
                = Some(RebuildPlan(req[r].ownerId, req[r].ownerType, req[r].sources,
                                   req[r].embedRatio).record)
          /\ documentsByConversation[req[r].ownerId] = DocumentsAlone(r)

\* ------------------------------------------------------------------------
\* Source ids of a status answer, used for a removal (specification SpecStatus)
\* ------------------------------------------------------------------------
\* a summary without the ids of its sources
Untagged(stats) ==
    [stats EXCEPT !.sources = [i \in DOMAIN stats.sources |->
                                  [stats.sources[i] EXCEPT !.id = 0]]]

\* the last status answer is an answer for owner o with a summary
AnsweredFor(o) ==
    /\ statusReply # None
    /\ statusReply[1].result = "ok"
    /\ statusReply[1].ownerId = o
    /\ statusReply[1].hasManual

\* the record of owner o is as the last status answer found it: a read of it
\* gives the summary of the answer, with the ids of the answer when the record
\* stores its sources
AsAnswered(o) ==
    /\ AnsweredFor(o)
    /\ LET now == getManualStatus(manualFiles, o, statusReply[1].ownerType, 0)
       IN /\ now.hasManual
          /\ Untagged(now.stats[1]) = Untagged(statusReply[1].stats[1])
          /\ Rebuilt(manualFiles[o]) => now.stats = statusReply[1].stats

\* the source ids the last status answer lists
ListedIds == SourceIds(statusReply[1].stats[1].sources)

\* request r starts in this step, as a removal for an owner whose record is as
\* the last status answer found it, of a source the answer lists
RemovesListed(r) ==
    /\ req[r].pc = "idle"
    /\ req'[r].kind = "remove"
    /\ req'[r].ownerId # ""
    /\ AsAnswered(req'[r].ownerId)
    /\ req'[r].sourceId \in ListedIds

\* C29: a removal of a source id that a status query listed for the owner, the
\* owner's record being unchanged since, does not fail with NotFound; also
\* when the record is stored without sources and the ids were made on the read
C29_StatusIdsRemovable ==
    [][\A r \in Slots : RemovesListed(r) => req'[r].result # "NotFound"]_vars

\* the same for records that store their sources
StatusIdsRemovableStored ==
    [][\A r \in Slots :
          (RemovesListed(r) /\ Rebuilt(manualFiles[req'[r].ownerId]))
          => req'[r].result # "NotFound"]_vars

\* a removal of a listed source of a stored record has started
StoredListedRemoved ==
    \E r \in Slots :
        /\ req[r].kind = "remove"
        /\ req[r].result # "NotFound"
        /\ Rebuilt(req[r].preFile)
        /\ AnsweredFor(req[r].ownerId)
        /\ req[r].sourceId \in ListedIds

\* ------------------------------------------------------------------------
\* The owner type of a record across a removal (specification Spec)
\* ------------------------------------------------------------------------
\* the removal r has rebuilt a record that stored its owner type, and no other
\* request for the owner overlapped or followed it
RebuiltByRemoval(r) ==
    /\ Done(r) /\ req[r].kind = "remove" /\ req[r].result = "ok" /\ req[r].hasManual
    /\ Isolated(r)
    /\ req[r].preFile # None
    /\ "ownerType" \in DOMAIN req[r].preFile[1]

\* C30: a source removal that rebuilds the record from the remaining sources,
\* through the project routes or the guest routes, leaves the ownerType of the
\* stored record (and of its metadata row) as it was stored before
C30_RemovalKeepsOwnerType ==
    \A r \in Slots :
        RebuiltByRemoval(r)
        => /\ manualFiles[req[r].ownerId][1].ownerType = req[r].preFile[1].ownerType
           /\ manualsTable[req[r].ownerId][1].owner_type = req[r].preFile[1].ownerType

\* the same for removals through the project routes
ProjectRemovalKeepsOwnerType ==
    \A r \in Slots :
        (RebuiltByRemoval(r) /\ req[r].entry = "projects")
        => /\ manualFiles[req[r].ownerId][1].ownerType = req[r].preFile[1].ownerType
           /\ manualsTable[req[r].ownerId][1].owner_type = req[r].preFile[1].ownerType

\* a removal through the project routes has rebuilt a record
ProjectRemovalSeen == \E r \in Slots : RebuiltByRemoval(r) /\ req[r].entry = "projects"

====
